---- MODULE Spec2Model ----
(***************************************************************************)
(* ScriptureLoop game-economy engine: the stored procedures of the         *)
(* database migration (award_xp, gift_booster, redeem_grace_pass,          *)
(* run_weekly_league_update, get_leaderboard, process_offline_actions),    *)
(* the client's gem purchase of a booster and the purchase webhook.        *)
(*                                                                         *)
(* Every stored procedure call is one PostgreSQL transaction under READ    *)
(* COMMITTED: each statement reads the rows committed so far, an UPDATE of *)
(* a users row holds the row lock until the transaction ends, an INSERT of *)
(* a key under a UNIQUE constraint waits for an uncommitted insert of the  *)
(* same key and fails once that insert has committed.  A call is split at  *)
(* the statements where another transaction can be observed or waited for. *)
(***************************************************************************)
EXTENDS Integers, Sequences, FiniteSets, TLC

\* ---------------------------------------------------------------- bounds
\* call slots of the engine specifications (concurrent calls)
MaxCalls == 2
\* the calendar may advance this many days
MaxDays == 3
\* activity rows the streak milestones may add
MaxMilestones == 2
\* the clock (hours) may advance this far
MaxNow == 6

\* ------------------------------------------------------ program constants
MorningStart == 6
MorningEnd == 9
XpPerLevel == 500
XpPerGem == 100
Duration2x == 2
Duration3x == 1

\* ------------------------------------------------------------ input sets
Users == {"u1", "u2"}
Procs == 1..MaxCalls
ActionIds == {"a1", "a2"}
AwardAmounts == {-50, 125}
\* the clock starts one hour before the morning window
StartNow == MorningStart - 1
NoProc == 0

\* ------------------------------------------------------------- arithmetic
\* integer / integer in PostgreSQL truncates toward zero
TruncDiv(a, b) == IF a >= 0 THEN a \div b ELSE -((-a) \div b)

\* FLOOR(x * 1.5): numeric product, floored toward minus infinity
MorningBoost(x) == (3 * x) \div 2

HourOf(t) == t % 24

\* the UTC calendar day of an instant (toISOString().split('T')[0], CURRENT_DATE)
DayOf(t) == t \div 24

\* ------------------------------------------------------------- users rows
\* column defaults of the users table
DefaultUser ==
    [xp |-> 0, weekly_xp |-> 0, lifetime_xp |-> 0, level |-> 1,
     streak |-> 0, grace_passes_used |-> 0, grace_passes_available |-> 1,
     gems |-> 50, league |-> 1, league_position |-> 0,
     has_used_morning_bonus |-> FALSE, has_streak_bonus |-> FALSE,
     last_active_date |-> DayOf(StartNow)]

IdleProc ==
    [pc |-> "idle", op |-> "none", user |-> "u1", action_id |-> "a1",
     amount |-> 0, v_now |-> 0, rec |-> DefaultUser, final |-> 0,
     level |-> 1, gems |-> 0, res |-> "none", xp_awarded |-> 0,
     to_user |-> "u1", booster_type |-> "2x", remaining |-> 0,
     streak_broken |-> FALSE, previous_streak |-> 0,
     transaction_id |-> "t1", product_id |-> "none",
     queue |-> <<>>, snap |-> {}, pending |-> <<>>, marked |-> {}, log |-> <<>>]

VARIABLES
    now,          \* server clock, in hours
    users,        \* committed rows of the users table
    xp_ledger,    \* committed rows of xp_ledger, in insertion order
    boosters,     \* committed rows of boosters
    activities,   \* committed rows of activities
    lock,         \* lock[u]: the transaction holding the row lock of users[u]
    txrow,        \* txrow[p]: the uncommitted version of the row p has locked
    proc,         \* proc[p]: position, arguments and locals of call slot p
    init_users,   \* the users table at creation (history)
    offline_actions,   \* committed rows of offline_actions, in creation order
    purchases,         \* committed rows of purchases
    league_snapshots,  \* committed rows of league_snapshots
    board,             \* the rows the last call returned, when it was get_leaderboard
    async_storage      \* the device's AsyncStorage entry 'offline_actions_queue'

vars == <<now, users, xp_ledger, boosters, activities, lock, txrow, proc, init_users,
          offline_actions, purchases, league_snapshots, board, async_storage>>

\* the tables award_xp neither reads nor writes
otherTables == <<offline_actions, purchases, league_snapshots, board, async_storage>>

\* -------------------------------------------------------------- helpers
\* p_league IS NULL
NoLeague == 0

\* no rows have been returned
NoBoard == [league |-> NoLeague, timeframe |-> "none", rows |-> <<>>]

LedgerHas(a) == \E i \in 1..Len(xp_ledger) : xp_ledger[i].action_id = a

\* another transaction has inserted the same action_id and not yet ended
InsertPending(p, a) ==
    \E q \in Procs \ {p} :
        /\ proc[q].op = "award_xp"
        /\ proc[q].pc = "commit"
        /\ proc[q].action_id = a

\* the row lock of u is free for p
CanLock(p, u) == lock[u] \in {NoProc, p}

\* the row version p's next UPDATE applies to
RowFor(p, u) == IF lock[u] = p THEN txrow[p] ELSE users[u]

ActiveBoosters(u, t) ==
    {i \in 1..Len(boosters) :
        /\ boosters[i].user_id = u
        /\ boosters[i].is_active
        /\ boosters[i].expires_at > t}

\* ORDER BY expires_at DESC LIMIT 1
LatestBoosters(u, t) ==
    {i \in ActiveBoosters(u, t) :
        \A j \in ActiveBoosters(u, t) : boosters[j].expires_at <= boosters[i].expires_at}

BoosterFactor(type) == IF type = "3x" THEN 3 ELSE IF type = "2x" THEN 2 ELSE 1

Release(p) == [u \in Users |-> IF lock[u] = p THEN NoProc ELSE lock[u]]

Finish(p, r, x) == [proc EXCEPT ![p].pc = "done", ![p].res = r, ![p].xp_awarded = x]

\* the transaction p is waiting for, NoProc when p is not waiting
Waitee(p) ==
    LET c == proc[p] IN
    IF c.op = "award_xp" /\ c.pc = "insert" /\ ~LedgerHas(c.action_id)
          /\ InsertPending(p, c.action_id)
    THEN CHOOSE q \in Procs \ {p} :
            proc[q].op = "award_xp" /\ proc[q].pc = "commit"
                /\ proc[q].action_id = c.action_id
    ELSE IF c.op = "award_xp" /\ c.pc = "commit" /\ ~CanLock(p, c.user)
    THEN lock[c.user]
    ELSE IF c.op = "redeem_grace_pass" /\ c.pc = "update" /\ ~CanLock(p, c.user)
    THEN lock[c.user]
    ELSE NoProc

RECURSIVE WaitChain(_, _, _)
\* q is reached from p by following at most n waits
WaitChain(p, q, n) ==
    IF n = 0 \/ Waitee(p) = NoProc THEN FALSE
    ELSE Waitee(p) = q \/ WaitChain(Waitee(p), q, n - 1)

InDeadlock(p) == WaitChain(p, p, MaxCalls)

\* another process_offline_actions transaction has updated the offline_actions
\* row with this index and not yet ended
MarkPending(p, i) ==
    \E q \in Procs \ {p} :
        /\ proc[q].op = "process_offline_actions"
        /\ proc[q].pc \in {"loop", "insert_wait"}
        /\ i \in proc[q].marked

\* the offline_actions rows with action_id a
RowsOf(a) == {i \in 1..Len(offline_actions) : offline_actions[i].action_id = a}

\* call slots are taken in order
SlotFree(p) == proc[p].pc = "idle" /\ (IF p = 1 THEN TRUE ELSE proc[p - 1].pc # "idle")

\* --------------------------------------------------------------- award_xp
\* mutant of AwardCheck: the call starts without looking the action_id up
AwardCheckNoLookup(p, u, a, amt) ==
    /\ SlotFree(p)
    /\ proc' = [proc EXCEPT ![p] =
                  [IdleProc EXCEPT !.op = "award_xp", !.user = u, !.action_id = a,
                                   !.amount = amt, !.final = amt, !.v_now = now,
                                   !.pc = "user"]]
    /\ UNCHANGED <<now, users, xp_ledger, boosters, activities, lock, txrow, init_users, otherTables>>

\* BEGIN .. idempotency check (SELECT id FROM xp_ledger WHERE action_id = ..)
AwardCheck(p, u, a, amt) ==
    /\ proc[p].pc = "idle"
    /\ SlotFree(p)
    /\ LET c == [IdleProc EXCEPT !.op = "award_xp", !.user = u, !.action_id = a,
                                 !.amount = amt, !.final = amt, !.v_now = now]
       IN proc' = [proc EXCEPT ![p] =
                     IF LedgerHas(a)
                     THEN [c EXCEPT !.pc = "done", !.res = "already", !.xp_awarded = 0]
                     ELSE [c EXCEPT !.pc = "user"]]
    /\ UNCHANGED <<now, users, xp_ledger, boosters, activities, lock, txrow, init_users, otherTables>>

\* SELECT * INTO v_user_record FROM users WHERE id = v_user_id
AwardReadUser(p) ==
    /\ proc[p].op = "award_xp"
    /\ proc[p].pc = "user"
    /\ proc' = [proc EXCEPT ![p].rec = users[proc[p].user], ![p].pc = "bonus"]
    /\ UNCHANGED <<now, users, xp_ledger, boosters, activities, lock, txrow, init_users, otherTables>>

MorningApplies(c) ==
    /\ HourOf(c.v_now) >= MorningStart
    /\ HourOf(c.v_now) < MorningEnd
    /\ ~c.rec.has_used_morning_bonus

StreakApplies(c) == c.rec.has_streak_bonus

AfterMorning(c) == IF MorningApplies(c) THEN MorningBoost(c.amount) ELSE c.amount

\* mutant of AfterStreak: the streak doubling comes before the morning floor
AfterStreakFirst(c) ==
    LET doubled == IF StreakApplies(c) THEN c.amount * 2 ELSE c.amount
    IN IF MorningApplies(c) THEN MorningBoost(doubled) ELSE doubled

AfterStreak(c) == IF StreakApplies(c) THEN AfterMorning(c) * 2 ELSE AfterMorning(c)

NewLevel(xp) == TruncDiv(xp, XpPerLevel) + 1

GemsEarned(amount) == TruncDiv(amount, XpPerGem)

\* the two flag UPDATEs, the booster lookup and the reward computation
AwardBonus(p) ==
    LET c == proc[p]
        u == c.user
        needs == MorningApplies(c) \/ StreakApplies(c)
        base == RowFor(p, u)
        r1 == IF MorningApplies(c) THEN [base EXCEPT !.has_used_morning_bonus = TRUE] ELSE base
        r2 == IF StreakApplies(c) THEN [r1 EXCEPT !.has_streak_bonus = FALSE] ELSE r1
    IN
    /\ c.op = "award_xp"
    /\ c.pc = "bonus"
    /\ needs => CanLock(p, u)
    /\ \E f \in IF ActiveBoosters(u, c.v_now) = {}
                THEN {AfterStreak(c)}
                ELSE {AfterStreak(c) * BoosterFactor(boosters[i].type) :
                          i \in LatestBoosters(u, c.v_now)} :
          proc' = [proc EXCEPT ![p].final = f,
                               ![p].level = NewLevel(c.rec.xp + f),
                               ![p].gems = GemsEarned(f),
                               ![p].pc = "insert"]
    /\ lock' = IF needs THEN [lock EXCEPT ![u] = p] ELSE lock
    /\ txrow' = IF needs THEN [txrow EXCEPT ![p] = r2] ELSE txrow
    /\ UNCHANGED <<now, users, xp_ledger, boosters, activities, init_users, otherTables>>

\* mutant of AwardInsert: the flag UPDATEs survive a failed insert
AwardInsertKeepFlags(p) ==
    LET c == proc[p] IN
    /\ c.op = "award_xp"
    /\ c.pc = "insert"
    /\ IF LedgerHas(c.action_id)
       THEN /\ proc' = Finish(p, "unique_violation", 0)
            /\ users' = [users EXCEPT ![c.user] = RowFor(p, c.user)]
            /\ lock' = Release(p)
            /\ txrow' = [txrow EXCEPT ![p] = DefaultUser]
       ELSE /\ ~InsertPending(p, c.action_id)
            /\ proc' = [proc EXCEPT ![p].pc = "commit"]
            /\ UNCHANGED <<users, lock, txrow>>
    /\ UNCHANGED <<now, xp_ledger, boosters, activities, init_users, otherTables>>

\* INSERT INTO xp_ledger: action_id is UNIQUE
AwardInsert(p) ==
    LET c == proc[p] IN
    /\ c.op = "award_xp"
    /\ c.pc = "insert"
    /\ IF LedgerHas(c.action_id)
       THEN \* unique_violation: no handler, the transaction is rolled back
            /\ proc' = Finish(p, "unique_violation", 0)
            /\ lock' = Release(p)
            /\ txrow' = [txrow EXCEPT ![p] = DefaultUser]
       ELSE /\ ~InsertPending(p, c.action_id)
            /\ proc' = [proc EXCEPT ![p].pc = "commit"]
            /\ UNCHANGED <<lock, txrow>>
    /\ UNCHANGED <<now, users, xp_ledger, boosters, activities, init_users, otherTables>>

\* mutant of AwardCommit: the new totals are computed from v_user_record
\* (read-modify-write) instead of xp = xp + v_final_amount
AwardCommitReadModifyWrite(p) ==
    LET c == proc[p]
        u == c.user
        row == RowFor(p, u)
    IN
    /\ c.op = "award_xp"
    /\ c.pc = "commit"
    /\ CanLock(p, u)
    /\ users' = [users EXCEPT ![u] =
                    [row EXCEPT !.xp = c.rec.xp + c.final,
                                !.weekly_xp = c.rec.weekly_xp + c.final,
                                !.lifetime_xp = c.rec.lifetime_xp + c.final,
                                !.level = c.level,
                                !.gems = c.rec.gems + c.gems]]
    /\ xp_ledger' = Append(xp_ledger,
                        [user_id |-> u, action_id |-> c.action_id, amount |-> c.final])
    /\ activities' = Append(activities, [user_id |-> u, type |-> "challenge_completed"])
    /\ proc' = Finish(p, "ok", c.final)
    /\ lock' = Release(p)
    /\ txrow' = [txrow EXCEPT ![p] = DefaultUser]
    /\ UNCHANGED <<now, boosters, init_users, otherTables>>

\* UPDATE users SET xp = xp + .., INSERT INTO activities, RETURN, commit
AwardCommit(p) ==
    LET c == proc[p]
        u == c.user
        row == RowFor(p, u)
    IN
    /\ c.op = "award_xp"
    /\ c.pc = "commit"
    /\ CanLock(p, u)
    /\ users' = [users EXCEPT ![u] =
                    [row EXCEPT !.xp = @ + c.final,
                                !.weekly_xp = @ + c.final,
                                !.lifetime_xp = @ + c.final,
                                !.level = c.level,
                                !.gems = @ + c.gems]]
    /\ xp_ledger' = Append(xp_ledger,
                        [user_id |-> u, action_id |-> c.action_id, amount |-> c.final])
    /\ activities' = Append(activities, [user_id |-> u, type |-> "challenge_completed"])
    /\ proc' = Finish(p, "ok", c.final)
    /\ lock' = Release(p)
    /\ txrow' = [txrow EXCEPT ![p] = DefaultUser]
    /\ UNCHANGED <<now, boosters, init_users, otherTables>>

\* the deadlock detector aborts a transaction of a wait cycle
DeadlockAbort(p) ==
    /\ InDeadlock(p)
    /\ proc' = Finish(p, "deadlock_detected", 0)
    /\ lock' = Release(p)
    /\ txrow' = [txrow EXCEPT ![p] = DefaultUser]
    /\ UNCHANGED <<now, users, xp_ledger, boosters, activities, init_users, otherTables>>

\* ------------------------------------------------------------------ clock
Tick ==
    /\ now < MaxNow
    /\ now' = now + 1
    /\ UNCHANGED <<users, xp_ledger, boosters, activities, lock, txrow, proc, init_users, otherTables>>

\* ----------------------------------------------------- award_xp in isolation
InitXps == {0, 450}

AwardUserRows ==
    {[DefaultUser EXCEPT !.xp = x, !.lifetime_xp = x, !.level = NewLevel(x),
                         !.has_streak_bonus = s] :
        x \in InitXps, s \in BOOLEAN}

InitBoosterTables ==
    {<<>>, <<[user_id |-> "u1", type |-> "2x", expires_at |-> StartNow + 1,
              is_active |-> TRUE, created_at |-> StartNow - 1]>>}

InitAward ==
    /\ now = StartNow
    /\ \E r \in AwardUserRows : users = [u \in Users |-> IF u = "u1" THEN r ELSE DefaultUser]
    /\ xp_ledger = <<>>
    /\ boosters \in InitBoosterTables
    /\ activities = <<>>
    /\ lock = [u \in Users |-> NoProc]
    /\ txrow = [p \in Procs |-> DefaultUser]
    /\ proc = [p \in Procs |-> IdleProc]
    /\ init_users = users
    /\ offline_actions = <<>>
    /\ purchases = <<>>
    /\ league_snapshots = <<>>
    /\ board = NoBoard
    /\ async_storage = <<>>

NextAward ==
    \/ \E p \in Procs, u \in Users, a \in ActionIds, amt \in AwardAmounts :
          AwardCheck(p, u, a, amt)
    \/ \E p \in Procs : AwardReadUser(p)
    \/ \E p \in Procs : AwardBonus(p)
    \/ \E p \in Procs : AwardInsert(p)
    \/ \E p \in Procs : AwardCommit(p)
    \/ \E p \in Procs : DeadlockAbort(p)
    \/ Tick

SpecAward == InitAward /\ [][NextAward]_vars

TypeOK ==
    /\ now \in StartNow..(MaxNow + 24 * MaxDays)
    /\ \A u \in Users : lock[u] \in Procs \cup {NoProc}

\* ------------------------------------------------ run_weekly_league_update
TopLeague == 4
BottomLeague == 1
PromotionSlots == 3
PromotionMinXp == 500
RelegationZone == 5

\* v_league_sizes
LeagueSize(l) == IF l = 1 THEN 50 ELSE IF l = 2 THEN 30 ELSE IF l = 3 THEN 20 ELSE 10

Members(tab, l) == {u \in DOMAIN tab : tab[u].league = l}

\* ORDER BY weekly_xp DESC, xp DESC: a sorts strictly before b
WeeklyBefore(tab, a, b) ==
    \/ tab[a].weekly_xp > tab[b].weekly_xp
    \/ tab[a].weekly_xp = tab[b].weekly_xp /\ tab[a].xp > tab[b].xp

RECURSIVE WeeklyOrders(_, _)
\* every order the query may return the rows of S in (equal keys come in any order)
WeeklyOrders(tab, S) ==
    IF S = {} THEN {<<>>}
    ELSE UNION {{<<m>> \o t : t \in WeeklyOrders(tab, S \ {m})} :
                   m \in {x \in S : \A y \in S : ~WeeklyBefore(tab, y, x)}}

Promotes(l, count, weekly_xp) ==
    l < TopLeague /\ count <= PromotionSlots /\ weekly_xp >= PromotionMinXp

Relegates(l, count) ==
    l > BottomLeague /\ count > LeagueSize(l) - RelegationZone

\* mutant of NewLeague: the promotion test is skipped for the third place
NewLeagueTopTwo(l, count, weekly_xp) ==
    IF Promotes(l, count + 1, weekly_xp) THEN l + 1
    ELSE IF Relegates(l, count) THEN l - 1
    ELSE l

\* v_new_league for the member at in-league position count
NewLeague(l, count, weekly_xp) ==
    IF Promotes(l, count, weekly_xp) THEN l + 1
    ELSE IF Relegates(l, count) THEN l - 1
    ELSE l

\* mutant of UpdatedUser: the weekly columns are reset only for a member who
\* changes league
UpdatedUserMoversOnly(row, new, rank) ==
    IF new = row.league
    THEN [row EXCEPT !.league_position = rank]
    ELSE [row EXCEPT !.league = new, !.league_position = rank,
                     !.weekly_xp = 0, !.has_used_morning_bonus = FALSE]

\* UPDATE users SET league = v_new_league, league_position = v_rank, ..
UpdatedUser(row, new, rank) ==
    [row EXCEPT !.league = new,
                !.league_position = rank,
                !.weekly_xp = 0,
                !.has_used_morning_bonus = FALSE]

RECURSIVE LeagueLoop(_, _, _, _, _, _)
\* the inner FOR loop: the rows come from the query result q (the table when
\* the league's query was opened), the UPDATEs go to tab
LeagueLoop(q, tab, rankings, l, order, rank) ==
    IF order = <<>> THEN [users |-> tab, rankings |-> rankings, rank |-> rank]
    ELSE LET u == Head(order)
             count == Cardinality(Members(q, l)) - Len(order) + 1
             new == NewLeague(l, count, q[u].weekly_xp)
         IN LeagueLoop(q,
                       [tab EXCEPT ![u] = UpdatedUser(@, new, rank)],
                       Append(rankings, [user_id |-> u, weekly_xp |-> q[u].weekly_xp,
                                         old_league |-> l, new_league |-> new,
                                         rank |-> rank]),
                       l, Tail(order), rank + 1)

RECURSIVE LeaguesFrom(_, _, _, _)
\* the outer loop over generate_series(4, 1, -1), from league l down
LeaguesFrom(tab, rankings, l, rank) ==
    IF l < BottomLeague THEN {[users |-> tab, rankings |-> rankings]}
    ELSE UNION {LET r == LeagueLoop(tab, tab, rankings, l, order, rank)
                IN LeaguesFrom(r.users, r.rankings, l - 1, r.rank) :
                   order \in WeeklyOrders(tab, Members(tab, l))}

\* the job may be run this many times
MaxRuns == 2

RunWeeklyLeagueUpdate ==
    /\ Len(league_snapshots) < MaxRuns
    /\ \A u \in DOMAIN lock : lock[u] = NoProc
    /\ \E r \in LeaguesFrom(users, <<>>, TopLeague, 1) :
          /\ users' = r.users
          /\ league_snapshots' = Append(league_snapshots, r.rankings)
    /\ board' = NoBoard
    /\ UNCHANGED <<now, xp_ledger, boosters, activities, lock, txrow, proc, init_users,
                   offline_actions, purchases, async_storage>>

\* ---------------------------------------------------------- get_leaderboard

\* mutant of BoardBefore: the rows are sorted by the XP column alone
BoardBeforeXpOnly(tab, timeframe, a, b) ==
    IF timeframe = "weekly"
    THEN WeeklyBefore(tab, a, b)
    ELSE tab[a].lifetime_xp > tab[b].lifetime_xp

\* ORDER BY league DESC, weekly_xp DESC, xp DESC / league DESC, lifetime_xp DESC
BoardBefore(tab, timeframe, a, b) ==
    \/ tab[a].league > tab[b].league
    \/ /\ tab[a].league = tab[b].league
       /\ IF timeframe = "weekly"
          THEN WeeklyBefore(tab, a, b)
          ELSE tab[a].lifetime_xp > tab[b].lifetime_xp

RECURSIVE BoardOrders(_, _, _)
BoardOrders(tab, timeframe, S) ==
    IF S = {} THEN {<<>>}
    ELSE UNION {{<<m>> \o t : t \in BoardOrders(tab, timeframe, S \ {m})} :
                   m \in {x \in S : \A y \in S : ~BoardBefore(tab, timeframe, y, x)}}

\* One query is taken between two writes of the table: a further query of the
\* same table returns rows the first one could have returned.
GetLeaderboard(p_league, p_timeframe) ==
    /\ board = NoBoard
    /\ \E order \in BoardOrders(users, p_timeframe,
                      {u \in DOMAIN users : p_league = NoLeague \/ users[u].league = p_league}) :
          board' = [league |-> p_league, timeframe |-> p_timeframe,
                    rows |-> [i \in 1..Len(order) |->
                                [user_id |-> order[i], xp |-> users[order[i]].xp,
                                 weekly_xp |-> users[order[i]].weekly_xp,
                                 league |-> users[order[i]].league,
                                 league_position |-> users[order[i]].league_position,
                                 rank |-> i]]]
    /\ UNCHANGED <<now, users, xp_ledger, boosters, activities, lock, txrow, proc,
                   init_users, offline_actions, purchases, league_snapshots, async_storage>>

\* ------------------------------------------------------ the league in isolation
\* users in the league specification
MaxLeagueUsers == 21

LeagueUsers == 1..MaxLeagueUsers

WeeklyPatterns ==
    {<<800, 600, 550, 300>>, <<750, 500, 250, 0, -250>>, <<0, 600, 0, 500, 600, 0>>}

Timeframes == {"weekly", "monthly"}

\* league sizes around the promotion slots and the relegation cutoffs
LeagueCounts == {0, 1, 6, 15, 21}

\* users 1..d are Diamond, the next g Gold, the next s Silver, the rest Bronze
LeagueOf(i, d, g, s) ==
    IF i <= d THEN 4 ELSE IF i <= d + g THEN 3 ELSE IF i <= d + g + s THEN 2 ELSE 1

InitLeague ==
    /\ now = StartNow
    /\ \E d, g, s \in LeagueCounts, w \in WeeklyPatterns, tied \in BOOLEAN :
          /\ d + g + s <= MaxLeagueUsers
          /\ users = [i \in LeagueUsers |->
                        LET x == IF tied /\ i <= 3 THEN 300 ELSE 100 * i IN
                        [DefaultUser EXCEPT !.league = LeagueOf(i, d, g, s),
                                            !.weekly_xp = w[((i - 1) % Len(w)) + 1],
                                            !.xp = x, !.lifetime_xp = x,
                                            !.level = NewLevel(x),
                                            !.has_used_morning_bonus = (i % 2 = 0)]]
    /\ xp_ledger = <<>>
    /\ boosters = <<>>
    /\ activities = <<>>
    /\ lock = [u \in Users |-> NoProc]
    /\ txrow = [p \in Procs |-> DefaultUser]
    /\ proc = [p \in Procs |-> IdleProc]
    /\ init_users = users
    /\ offline_actions = <<>>
    /\ purchases = <<>>
    /\ league_snapshots = <<>>
    /\ board = NoBoard
    /\ async_storage = <<>>

NextLeague ==
    \/ RunWeeklyLeagueUpdate
    \/ \E l \in {NoLeague} \cup BottomLeague..TopLeague, t \in Timeframes : GetLeaderboard(l, t)

SpecLeague == InitLeague /\ [][NextLeague]_vars

\* ------------------------------------------------------ redeem_grace_pass
\* SELECT id FROM offline_actions WHERE action_id = a AND processed = TRUE
ProcessedAction(a) ==
    \E i \in 1..Len(offline_actions) :
        offline_actions[i].action_id = a /\ offline_actions[i].processed

HasAction(a) == \E i \in 1..Len(offline_actions) : offline_actions[i].action_id = a

\* INSERT .. ON CONFLICT (action_id) DO UPDATE SET processed = TRUE
UpsertProcessed(u, a) ==
    IF HasAction(a)
    THEN [i \in 1..Len(offline_actions) |->
            IF offline_actions[i].action_id = a
            THEN [offline_actions[i] EXCEPT !.processed = TRUE]
            ELSE offline_actions[i]]
    ELSE Append(offline_actions,
                [user_id |-> u, action_id |-> a,
                 action_type |-> "redeem_grace_pass", processed |-> TRUE,
                 created_at |-> now, amount |-> 0])

\* mutant of RedeemCheck: the call starts without looking the action_id up
RedeemCheckNoLookup(p, u, a) ==
    /\ SlotFree(p)
    /\ proc' = [proc EXCEPT ![p] =
                  [IdleProc EXCEPT !.op = "redeem_grace_pass", !.user = u,
                                   !.action_id = a, !.v_now = now, !.pc = "user"]]
    /\ UNCHANGED <<now, users, xp_ledger, boosters, activities, lock, txrow, init_users,
                   offline_actions, purchases, league_snapshots, board, async_storage>>

\* BEGIN .. idempotency check
RedeemCheck(p, u, a) ==
    /\ SlotFree(p)
    /\ LET c == [IdleProc EXCEPT !.op = "redeem_grace_pass", !.user = u,
                                 !.action_id = a, !.v_now = now]
       IN proc' = [proc EXCEPT ![p] =
                     IF ProcessedAction(a)
                     THEN [c EXCEPT !.pc = "done", !.res = "already"]
                     ELSE [c EXCEPT !.pc = "user"]]
    /\ UNCHANGED <<now, users, xp_ledger, boosters, activities, lock, txrow, init_users,
                   offline_actions, purchases, league_snapshots, board, async_storage>>

\* mutant of RedeemReadUser: the availability check is left out
RedeemReadUserNoCheck(p) ==
    /\ proc[p].op = "redeem_grace_pass"
    /\ proc[p].pc = "user"
    /\ proc' = [proc EXCEPT ![p].rec = users[proc[p].user], ![p].pc = "update"]
    /\ UNCHANGED <<now, users, xp_ledger, boosters, activities, lock, txrow, init_users,
                   offline_actions, purchases, league_snapshots, board, async_storage>>

\* SELECT * INTO v_user_record .. and the availability check
RedeemReadUser(p) ==
    LET c == proc[p]
        r == users[c.user]
    IN
    /\ c.op = "redeem_grace_pass"
    /\ c.pc = "user"
    /\ proc' = [proc EXCEPT ![p] =
                  IF r.grace_passes_available <= 0
                  THEN [c EXCEPT !.rec = r, !.pc = "done", !.res = "no_grace_passes"]
                  ELSE [c EXCEPT !.rec = r, !.pc = "update"]]
    /\ UNCHANGED <<now, users, xp_ledger, boosters, activities, lock, txrow, init_users,
                   offline_actions, purchases, league_snapshots, board, async_storage>>

\* UPDATE users SET grace_passes_used = grace_passes_used + 1, ..
RedeemUpdate(p) ==
    LET c == proc[p]
        u == c.user
    IN
    /\ c.op = "redeem_grace_pass"
    /\ c.pc = "update"
    /\ CanLock(p, u)
    /\ lock' = [lock EXCEPT ![u] = p]
    /\ txrow' = [txrow EXCEPT ![p] =
                    [RowFor(p, u) EXCEPT !.grace_passes_used = @ + 1,
                                         !.grace_passes_available = @ - 1,
                                         !.streak = IF @ > 0 THEN @ ELSE 1]]
    /\ proc' = [proc EXCEPT ![p].pc = "upsert"]
    /\ UNCHANGED <<now, users, xp_ledger, boosters, activities, init_users,
                   offline_actions, purchases, league_snapshots, board, async_storage>>

\* the upsert into offline_actions, RETURN, commit
RedeemCommit(p) ==
    LET c == proc[p]
        u == c.user
    IN
    /\ c.op = "redeem_grace_pass"
    /\ c.pc = "upsert"
    /\ \A i \in RowsOf(c.action_id) : ~MarkPending(p, i)
    /\ users' = [users EXCEPT ![u] = txrow[p]]
    /\ offline_actions' = UpsertProcessed(u, c.action_id)
    /\ proc' = [proc EXCEPT ![p].pc = "done", ![p].res = "ok",
                            ![p].remaining = c.rec.grace_passes_available - 1]
    /\ lock' = Release(p)
    /\ txrow' = [txrow EXCEPT ![p] = DefaultUser]
    /\ UNCHANGED <<now, xp_ledger, boosters, activities, init_users,
                   purchases, league_snapshots, board, async_storage>>

\* -------------------------------------------- redeem_grace_pass in isolation
InitPasses == {0, 1, 2}

InitStreaks == {0, 3}

\* nothing queued, or a redemption queued by the client while offline
InitOfflineTables ==
    {<<>>, <<[user_id |-> "u1", action_id |-> "a1",
              action_type |-> "redeem_grace_pass", processed |-> FALSE,
              created_at |-> StartNow, amount |-> 0]>>}

InitGrace ==
    /\ now = StartNow
    /\ \E g \in InitPasses, k \in InitStreaks :
          users = [u \in Users |->
                     IF u = "u1"
                     THEN [DefaultUser EXCEPT !.grace_passes_available = g, !.streak = k]
                     ELSE DefaultUser]
    /\ xp_ledger = <<>>
    /\ boosters = <<>>
    /\ activities = <<>>
    /\ lock = [u \in Users |-> NoProc]
    /\ txrow = [p \in Procs |-> DefaultUser]
    /\ proc = [p \in Procs |-> IdleProc]
    /\ init_users = users
    /\ offline_actions \in InitOfflineTables
    /\ purchases = <<>>
    /\ league_snapshots = <<>>
    /\ board = NoBoard
    /\ async_storage = <<>>

NextGrace ==
    \/ \E p \in Procs, u \in Users, a \in ActionIds : RedeemCheck(p, u, a)
    \/ \E p \in Procs : RedeemReadUser(p)
    \/ \E p \in Procs : RedeemUpdate(p)
    \/ \E p \in Procs : RedeemCommit(p)

SpecGrace == InitGrace /\ [][NextGrace]_vars

\* ------------------------------------------------------------ gift_booster
\* created_at::TEXT
TsText(t) == ToString(t)

BoosterTypes == {"2x", "3x", "5x"}

\* caller-chosen action ids; the second is the text of a timestamp
GiftActionIds == {"gift-1", TsText(StartNow)}

\* SELECT id FROM boosters WHERE user_id = to AND created_at::TEXT = a
GiftExisting(to, a) ==
    \E i \in 1..Len(boosters) :
        boosters[i].user_id = to /\ TsText(boosters[i].created_at) = a

BoosterDuration(type) == IF type = "2x" THEN Duration2x ELSE Duration3x

\* BEGIN .. idempotency check and validation of the booster type
GiftCheck(p, from, to, type, a) ==
    /\ SlotFree(p)
    /\ LET c == [IdleProc EXCEPT !.op = "gift_booster", !.user = from, !.to_user = to,
                                 !.booster_type = type, !.action_id = a, !.v_now = now]
       IN proc' = [proc EXCEPT ![p] =
                     IF GiftExisting(to, a)
                     THEN [c EXCEPT !.pc = "done", !.res = "already"]
                     ELSE IF type \notin {"2x", "3x"}
                     THEN [c EXCEPT !.pc = "done", !.res = "invalid_booster_type"]
                     ELSE [c EXCEPT !.pc = "insert"]]
    /\ UNCHANGED <<now, users, xp_ledger, boosters, activities, lock, txrow, init_users,
                   offline_actions, purchases, league_snapshots, board, async_storage>>

\* INSERT INTO boosters, INSERT INTO activities, RETURN, commit
GiftInsert(p) ==
    LET c == proc[p] IN
    /\ c.op = "gift_booster"
    /\ c.pc = "insert"
    /\ boosters' = Append(boosters,
                       [user_id |-> c.to_user, type |-> c.booster_type,
                        expires_at |-> c.v_now + BoosterDuration(c.booster_type),
                        is_active |-> TRUE, created_at |-> c.v_now])
    /\ activities' = Append(activities, [user_id |-> c.user, type |-> "booster_gifted"])
    /\ proc' = [proc EXCEPT ![p].pc = "done", ![p].res = "ok"]
    /\ UNCHANGED <<now, users, xp_ledger, lock, txrow, init_users,
                   offline_actions, purchases, league_snapshots, board, async_storage>>

\* ------------------------------------------------- gift_booster in isolation
InitGift ==
    /\ now = StartNow
    /\ users = [u \in Users |-> DefaultUser]
    /\ xp_ledger = <<>>
    /\ boosters = <<>>
    /\ activities = <<>>
    /\ lock = [u \in Users |-> NoProc]
    /\ txrow = [p \in Procs |-> DefaultUser]
    /\ proc = [p \in Procs |-> IdleProc]
    /\ init_users = users
    /\ offline_actions = <<>>
    /\ purchases = <<>>
    /\ league_snapshots = <<>>
    /\ board = NoBoard
    /\ async_storage = <<>>

NextGift ==
    \/ \E p \in Procs, from \in Users, to \in Users, type \in BoosterTypes,
          a \in GiftActionIds : GiftCheck(p, from, to, type, a)
    \/ \E p \in Procs : GiftInsert(p)
    \/ Tick

SpecGift == InitGift /\ [][NextGift]_vars

\* ------------------------------------------------ award_xp with every bonus
BonusAmounts == {100, 125}

\* boosters that are still active inside the morning window
BonusBoosterTables ==
    LET b(type, exp) == [user_id |-> "u1", type |-> type, expires_at |-> exp,
                         is_active |-> TRUE, created_at |-> StartNow - 1]
    IN {<<>>, <<b("2x", MorningStart + 1)>>, <<b("3x", MorningStart + 1)>>,
        <<b("3x", MorningStart + 1), b("2x", MorningStart + 2)>>}

InitBonus ==
    /\ now = StartNow
    /\ \E s \in BOOLEAN, m \in BOOLEAN :
          users = [u \in Users |->
                     IF u = "u1"
                     THEN [DefaultUser EXCEPT !.has_streak_bonus = s,
                                              !.has_used_morning_bonus = m]
                     ELSE DefaultUser]
    /\ xp_ledger = <<>>
    /\ boosters \in BonusBoosterTables
    /\ activities = <<>>
    /\ lock = [u \in Users |-> NoProc]
    /\ txrow = [p \in Procs |-> DefaultUser]
    /\ proc = [p \in Procs |-> IdleProc]
    /\ init_users = users
    /\ offline_actions = <<>>
    /\ purchases = <<>>
    /\ league_snapshots = <<>>
    /\ board = NoBoard
    /\ async_storage = <<>>

NextBonus ==
    \/ \E p \in Procs, a \in ActionIds, amt \in BonusAmounts : AwardCheck(p, "u1", a, amt)
    \/ \E p \in Procs : AwardReadUser(p)
    \/ \E p \in Procs : AwardBonus(p)
    \/ \E p \in Procs : AwardInsert(p)
    \/ \E p \in Procs : AwardCommit(p)
    \/ \E p \in Procs : DeadlockAbort(p)
    \/ Tick

SpecBonus == InitBonus /\ [][NextBonus]_vars

\* ------------------------------------------------- UserService.updateStreak
\* A call slot is a client here: proc[p].rec is its cached profile
\* (this.currentUser), filled by the first getCurrentUser and kept up to date
\* by the client's own updateUserStats.
StreakGap == 3
MilestoneEvery == 7

\* the profile getCurrentUser returns to client p for account u
CurrentUser(p, u) == IF proc[p].pc = "client" THEN proc[p].rec ELSE users[u]

\* mutant of NewStreak: a repeated call on the same day counts again
NewStreakCountsToday(stats, t) ==
    IF stats.last_active_date = DayOf(t - 24) \/ stats.last_active_date = DayOf(t)
    THEN stats.streak + 1
    ELSE 1

\* newStreak, for the profile read and the instant of the call
NewStreak(stats, t) ==
    IF stats.last_active_date = DayOf(t - 24) THEN stats.streak + 1
    ELSE IF stats.last_active_date # DayOf(t) THEN 1
    ELSE stats.streak

StreakBroken(stats, t) ==
    /\ stats.last_active_date # DayOf(t - 24)
    /\ stats.last_active_date # DayOf(t)
    /\ stats.streak >= StreakGap

\* updateStreak, with the updateUserStats write and the milestone activity
\* (today_completed and total_days_studied, which no modelled operation
\* reads, are not kept)
UpdateStreak(p, u) ==
    LET stats == CurrentUser(p, u)
        new == NewStreak(stats, now)
    IN
    /\ proc[p].pc \in {"idle", "client"}
    /\ proc[p].pc = "client" => proc[p].user = u
    /\ (new % MilestoneEvery = 0) => Len(activities) < MaxMilestones
    /\ users' = [users EXCEPT ![u].streak = new, ![u].last_active_date = DayOf(now)]
    /\ proc' = [proc EXCEPT ![p] =
                  [IdleProc EXCEPT !.pc = "client", !.op = "update_streak", !.user = u,
                                   !.res = "ok",
                                   !.rec = [stats EXCEPT !.streak = new,
                                                         !.last_active_date = DayOf(now)],
                                   !.streak_broken = StreakBroken(stats, now),
                                   !.previous_streak = stats.streak]]
    /\ activities' = IF new % MilestoneEvery = 0
                     THEN Append(activities, [user_id |-> u, type |-> "milestone_reached"])
                     ELSE activities
    /\ UNCHANGED <<now, xp_ledger, boosters, lock, txrow, init_users,
                   offline_actions, purchases, league_snapshots, board, async_storage>>

\* refreshUserData: the cache is dropped and read again
RefreshUserData(p) ==
    /\ proc[p].pc = "client"
    /\ proc[p].rec # users[proc[p].user]
    /\ proc' = [proc EXCEPT ![p].rec = users[proc[p].user]]
    /\ UNCHANGED <<now, users, xp_ledger, boosters, activities, lock, txrow, init_users,
                   offline_actions, purchases, league_snapshots, board, async_storage>>

\* the calendar moves on by a day
NextDay ==
    /\ DayOf(now) < MaxDays
    /\ now' = now + 24
    /\ UNCHANGED <<users, xp_ledger, boosters, activities, lock, txrow, proc, init_users,
                   offline_actions, purchases, league_snapshots, board, async_storage>>

\* ------------------------------------------------ updateStreak in isolation
InitStreakCounts == {0, 2, 3, 6}

\* last active today, yesterday or two days ago
InitLastActive == {DayOf(StartNow), DayOf(StartNow) - 1, DayOf(StartNow) - 2}

InitStreak ==
    /\ now = StartNow
    /\ \E k \in InitStreakCounts, d \in InitLastActive :
          users = [u \in Users |->
                     IF u = "u1"
                     THEN [DefaultUser EXCEPT !.streak = k, !.last_active_date = d]
                     ELSE DefaultUser]
    /\ xp_ledger = <<>>
    /\ boosters = <<>>
    /\ activities = <<>>
    /\ lock = [u \in Users |-> NoProc]
    /\ txrow = [p \in Procs |-> DefaultUser]
    /\ proc = [p \in Procs |-> IdleProc]
    /\ init_users = users
    /\ offline_actions = <<>>
    /\ purchases = <<>>
    /\ league_snapshots = <<>>
    /\ board = NoBoard
    /\ async_storage = <<>>

\* the devices signed in
StreakClients == {1, 2}

NextStreak ==
    \/ \E p \in StreakClients, u \in Users : UpdateStreak(p, u)
    \/ \E p \in StreakClients : RefreshUserData(p)
    \/ NextDay

SpecStreak == InitStreak /\ [][NextStreak]_vars

\* --------------------------------------------- revenuecat-webhook handlePurchase
Products ==
    {"grace_pass_single", "premium_content", "support_mission_small",
     "support_mission_medium", "support_mission_large"}

TransactionIds == {"t1", "t2"}

\* app_user_id of an event: an account, or an id without a users row
AppUserIds == Users \cup {"nobody"}

\* grantEntitlements: the gems and grace passes of a product
GemsFor(product) ==
    IF product = "support_mission_small" THEN 100
    ELSE IF product = "support_mission_medium" THEN 250
    ELSE IF product = "support_mission_large" THEN 500
    ELSE 0

PassesFor(product) ==
    IF product = "grace_pass_single" THEN 1
    ELSE IF product = "support_mission_large" THEN 3
    ELSE 0

\* a purchases row with this revenuecat_transaction_id exists (UNIQUE)
PurchaseRecorded(t) == \E i \in 1..Len(purchases) : purchases[i].transaction_id = t

\* one delivery of a purchase event: the user lookup, the insert into
\* purchases (a duplicate key, error 23505, is passed over) and the grant
HandlePurchase(p, app_user_id, product, t) ==
    LET c == [IdleProc EXCEPT !.op = "handlePurchase", !.pc = "done", !.v_now = now,
                              !.transaction_id = t, !.product_id = product]
    IN
    /\ SlotFree(p)
    /\ IF app_user_id \notin DOMAIN users
       THEN /\ proc' = [proc EXCEPT ![p] = [c EXCEPT !.res = "user_not_found"]]
            /\ UNCHANGED <<users, purchases>>
       ELSE /\ purchases' = IF PurchaseRecorded(t) THEN purchases
                            ELSE Append(purchases,
                                        [user_id |-> app_user_id, transaction_id |-> t,
                                         product_id |-> product])
            /\ users' = [users EXCEPT
                            ![app_user_id].gems = @ + GemsFor(product),
                            ![app_user_id].grace_passes_available = @ + PassesFor(product)]
            /\ proc' = [proc EXCEPT ![p] =
                          [c EXCEPT !.user = app_user_id,
                                    !.res = IF PurchaseRecorded(t) THEN "duplicate_granted"
                                            ELSE "granted"]]
    /\ UNCHANGED <<now, xp_ledger, boosters, activities, lock, txrow, init_users,
                   offline_actions, league_snapshots, board, async_storage>>

\* ---------------------------------------------------- the webhook in isolation
InitWebhook ==
    /\ now = StartNow
    /\ users = [u \in Users |-> DefaultUser]
    /\ xp_ledger = <<>>
    /\ boosters = <<>>
    /\ activities = <<>>
    /\ lock = [u \in Users |-> NoProc]
    /\ txrow = [p \in Procs |-> DefaultUser]
    /\ proc = [p \in Procs |-> IdleProc]
    /\ init_users = users
    /\ offline_actions = <<>>
    /\ purchases = <<>>
    /\ league_snapshots = <<>>
    /\ board = NoBoard
    /\ async_storage = <<>>

NextWebhook ==
    \E p \in Procs, a \in AppUserIds, product \in Products, t \in TransactionIds :
        HandlePurchase(p, a, product, t)

SpecWebhook == InitWebhook /\ [][NextWebhook]_vars


\* ------------------------------------------- purchaseBooster (client side)
BoosterShop ==
    { [id |-> "2x_xp", type |-> "2x", gemCost |-> 50, duration |-> 2],
      [id |-> "3x_xp", type |-> "3x", gemCost |-> 100, duration |-> 1] }

BoosterIds == {"2x_xp", "3x_xp", "10x_xp"}

ShopItem(id) == CHOOSE b \in BoosterShop : b.id = id

\* find the booster, read profile.gems, return false when it cannot be paid
PurchaseRead(p, u, id) ==
    /\ SlotFree(p)
    /\ LET c == [IdleProc EXCEPT !.op = "purchaseBooster", !.user = u,
                                 !.product_id = id, !.v_now = now]
       IN proc' = [proc EXCEPT ![p] =
                     IF id \notin {b.id : b \in BoosterShop}
                     THEN [c EXCEPT !.pc = "done", !.res = "false"]
                     ELSE IF users[u].gems < ShopItem(id).gemCost
                     THEN [c EXCEPT !.pc = "done", !.res = "false"]
                     ELSE [c EXCEPT !.pc = "update", !.gems = users[u].gems,
                                    !.booster_type = ShopItem(id).type]]
    /\ UNCHANGED <<now, users, xp_ledger, boosters, activities, lock, txrow, init_users,
                   otherTables>>

\* update({ gems: profile.gems - booster.gemCost })
PurchaseUpdate(p) ==
    LET c == proc[p] IN
    /\ c.op = "purchaseBooster"
    /\ c.pc = "update"
    /\ lock[c.user] = NoProc
    /\ users' = [users EXCEPT ![c.user].gems = c.gems - ShopItem(c.product_id).gemCost]
    /\ proc' = [proc EXCEPT ![p].pc = "insert"]
    /\ UNCHANGED <<now, xp_ledger, boosters, activities, lock, txrow, init_users,
                   otherTables>>

\* insert({ user_id, type, expires_at }) into boosters; return true
PurchaseInsert(p) ==
    LET c == proc[p] IN
    /\ c.op = "purchaseBooster"
    /\ c.pc = "insert"
    /\ boosters' = Append(boosters,
                       [user_id |-> c.user, type |-> c.booster_type,
                        expires_at |-> c.v_now + ShopItem(c.product_id).duration,
                        is_active |-> TRUE, created_at |-> now])
    /\ proc' = [proc EXCEPT ![p].pc = "done", ![p].res = "true"]
    /\ UNCHANGED <<now, users, xp_ledger, activities, lock, txrow, init_users,
                   otherTables>>

\* --------------------------------------------- gifts and purchases together
ShopGems == {50, 150}

InitBoosters ==
    /\ now = StartNow
    /\ users \in [Users -> {[DefaultUser EXCEPT !.gems = g] : g \in ShopGems}]
    /\ xp_ledger = <<>>
    /\ boosters = <<>>
    /\ activities = <<>>
    /\ lock = [u \in Users |-> NoProc]
    /\ txrow = [p \in Procs |-> DefaultUser]
    /\ proc = [p \in Procs |-> IdleProc]
    /\ init_users = users
    /\ offline_actions = <<>>
    /\ purchases = <<>>
    /\ league_snapshots = <<>>
    /\ board = NoBoard
    /\ async_storage = <<>>

BoosterClients == {1, 2}

NextBoosters ==
    \/ \E p \in BoosterClients, from \in Users, to \in Users, type \in BoosterTypes,
          a \in GiftActionIds : GiftCheck(p, from, to, type, a)
    \/ \E p \in BoosterClients : GiftInsert(p)
    \/ \E p \in BoosterClients, u \in Users, id \in BoosterIds : PurchaseRead(p, u, id)
    \/ \E p \in BoosterClients : PurchaseUpdate(p)
    \/ \E p \in BoosterClients : PurchaseInsert(p)
    \/ Tick

SpecBoosters == InitBoosters /\ [][NextBoosters]_vars


\* ----------------------------------------- queueOfflineAction (client side)
MaxQueue == 2

ActionTypes == {"award_xp", "redeem_grace_pass", "update_stats"}

QueueAmount == 100

\* offline_<type>_<timestamp>_<uuid>: an id no row has yet
NewActionId == "offline-" \o ToString(Len(offline_actions) + 1)

\* insert({ user_id, action_id, action_type, payload })
QueueOfflineAction(u, type) ==
    /\ Len(offline_actions) < MaxQueue
    /\ offline_actions' =
          Append(offline_actions,
                 [user_id |-> u, action_id |-> NewActionId, action_type |-> type,
                  processed |-> FALSE, created_at |-> now,
                  amount |-> IF type = "award_xp" THEN QueueAmount ELSE 0])
    /\ UNCHANGED <<now, users, xp_ledger, boosters, activities, lock, txrow, proc,
                   init_users, purchases, league_snapshots, board, async_storage>>

\* ------------------------------------------------- process_offline_actions
\* WHERE user_id = p_user_id AND processed = FALSE
Unprocessed(target) ==
    {i \in 1..Len(offline_actions) :
        offline_actions[i].user_id = target /\ ~offline_actions[i].processed}

RECURSIVE AnyOrder(_)
\* mutant of OldestFirst: the rows come in any order
AnyOrder(S) ==
    IF S = {} THEN {<<>>}
    ELSE UNION {{<<i>> \o q : q \in AnyOrder(S \ {i})} : i \in S}

RECURSIVE OldestFirst(_)
\* ORDER BY created_at ASC: the orders of the rows of S the query can return
OldestFirst(S) ==
    IF S = {} THEN {<<>>}
    ELSE UNION {{<<i>> \o q : q \in OldestFirst(S \ {i})} :
                   i \in {j \in S : \A k \in S :
                             offline_actions[j].created_at <= offline_actions[k].created_at}}

\* BEGIN .. the query of the FOR loop is opened
PoaStart(p, caller, target) ==
    /\ SlotFree(p)
    /\ \E q \in OldestFirst(Unprocessed(target)) :
          proc' = [proc EXCEPT ![p] =
                     [IdleProc EXCEPT !.op = "process_offline_actions", !.user = caller,
                                      !.to_user = target, !.v_now = now, !.pc = "loop",
                                      !.queue = q, !.snap = Unprocessed(target)]]
    /\ UNCHANGED <<now, users, xp_ledger, boosters, activities, lock, txrow, init_users,
                   otherTables>>

\* this transaction has inserted a ledger row with action_id a
PendingHas(c, a) == \E i \in 1..Len(c.pending) : c.pending[i].action_id = a

\* another transaction has inserted the same action_id and not yet ended
PoaInsertPending(p, a) ==
    \E q \in Procs \ {p} :
        /\ proc[q].op = "process_offline_actions"
        /\ proc[q].pc \in {"loop", "insert_wait"}
        /\ PendingHas(proc[q], a)

\* award_xp(amount, source, action_id, meta) called inside the transaction:
\* v_user_id is auth.uid(), NOW() is the start of the transaction
PoaAward(p, e) ==
    LET c == proc[p]
        u == c.user
        row == RowFor(p, u)
        cc == [c EXCEPT !.rec = row, !.amount = e.amount]
        r1 == IF MorningApplies(cc) THEN [row EXCEPT !.has_used_morning_bonus = TRUE] ELSE row
        r2 == IF StreakApplies(cc) THEN [r1 EXCEPT !.has_streak_bonus = FALSE] ELSE r1
        finals == IF ActiveBoosters(u, c.v_now) = {}
                  THEN {AfterStreak(cc)}
                  ELSE {AfterStreak(cc) * BoosterFactor(boosters[i].type) :
                            i \in LatestBoosters(u, c.v_now)}
    IN IF LedgerHas(e.action_id) \/ PendingHas(c, e.action_id)
       THEN {[res |-> "already", writes |-> FALSE, row |-> row, ledger |-> <<>>]}
       ELSE {[res |-> "ok", writes |-> TRUE,
              row |-> [r2 EXCEPT !.xp = @ + f,
                                 !.weekly_xp = @ + f,
                                 !.lifetime_xp = @ + f,
                                 !.level = NewLevel(row.xp + f),
                                 !.gems = @ + GemsEarned(f)],
              ledger |-> <<[user_id |-> u, action_id |-> e.action_id, amount |-> f]>>] :
                 f \in finals}

\* redeem_grace_pass(action_id) called inside the transaction
PoaRedeem(p, e) ==
    LET c == proc[p]
        row == RowFor(p, c.user)
    IN IF ProcessedAction(e.action_id)
       THEN {[res |-> "already", writes |-> FALSE, row |-> row, ledger |-> <<>>]}
       ELSE IF row.grace_passes_available <= 0
       THEN {[res |-> "no_grace_passes", writes |-> FALSE, row |-> row, ledger |-> <<>>]}
       ELSE {[res |-> "ok", writes |-> TRUE,
              row |-> [row EXCEPT !.grace_passes_used = @ + 1,
                                  !.grace_passes_available = @ - 1,
                                  !.streak = IF @ > 0 THEN @ ELSE 1],
              ledger |-> <<>>]}

\* CASE v_action.action_type
PoaOutcomes(p, e) ==
    IF e.action_type = "award_xp" THEN PoaAward(p, e)
    ELSE IF e.action_type = "redeem_grace_pass" THEN PoaRedeem(p, e)
    ELSE {[res |-> "unknown_action_type", writes |-> FALSE,
           row |-> RowFor(p, proc[p].user), ledger |-> <<>>]}

\* mutant of MarkAfter: only an action that succeeded is marked
MarkAfterSuccessOnly(marked, i, res) ==
    IF res \in {"ok", "already"} THEN marked \cup {i} ELSE marked

\* UPDATE offline_actions SET processed = TRUE WHERE id = v_action.id
MarkAfter(marked, i, res) == marked \cup {i}

\* the INSERT of award_xp finds an uncommitted row with the same action_id
PoaInsertBlocks(p) ==
    LET c == proc[p] IN
    /\ c.op = "process_offline_actions"
    /\ c.pc = "loop"
    /\ c.queue # <<>>
    /\ LET e == offline_actions[Head(c.queue)] IN
          /\ e.action_type = "award_xp"
          /\ ~LedgerHas(e.action_id)
          /\ ~PendingHas(c, e.action_id)
          /\ PoaInsertPending(p, e.action_id)

PoaInsertWait(p) ==
    /\ PoaInsertBlocks(p)
    /\ proc' = [proc EXCEPT ![p].pc = "insert_wait"]
    /\ UNCHANGED <<now, users, xp_ledger, boosters, activities, lock, txrow, init_users,
                   otherTables>>

\* the other transaction has ended: its commit makes the INSERT fail with
\* unique_violation (no handler: the whole call is rolled back), its
\* rollback lets the INSERT go on
PoaInsertResume(p) ==
    LET c == proc[p]
        a == offline_actions[Head(c.queue)].action_id
    IN
    /\ c.op = "process_offline_actions"
    /\ c.pc = "insert_wait"
    /\ ~PoaInsertPending(p, a)
    /\ IF LedgerHas(a)
       THEN /\ proc' = Finish(p, "unique_violation", 0)
            /\ lock' = Release(p)
            /\ txrow' = [txrow EXCEPT ![p] = DefaultUser]
       ELSE /\ proc' = [proc EXCEPT ![p].pc = "loop"]
            /\ UNCHANGED <<lock, txrow>>
    /\ UNCHANGED <<now, users, xp_ledger, boosters, activities, init_users, otherTables>>

\* one iteration of the loop: dispatch by type, then mark the row processed
PoaDispatch(p) ==
    LET c == proc[p]
        u == c.user
    IN
    /\ c.op = "process_offline_actions"
    /\ c.pc = "loop"
    /\ c.queue # <<>>
    /\ ~PoaInsertBlocks(p)
    /\ ~MarkPending(p, Head(c.queue))
    /\ \E o \in PoaOutcomes(p, offline_actions[Head(c.queue)]) :
          /\ o.writes => CanLock(p, u)
          /\ lock' = IF o.writes THEN [lock EXCEPT ![u] = p] ELSE lock
          /\ txrow' = IF o.writes THEN [txrow EXCEPT ![p] = o.row] ELSE txrow
          /\ proc' = [proc EXCEPT ![p].queue = Tail(c.queue),
                                  ![p].pending = c.pending \o o.ledger,
                                  ![p].marked = MarkAfter(c.marked, Head(c.queue), o.res),
                                  ![p].log = Append(c.log, [row |-> Head(c.queue),
                                                            res |-> o.res])]
    /\ UNCHANGED <<now, users, xp_ledger, boosters, activities, init_users, otherTables>>

\* END LOOP, RETURN success with processed_count, commit
PoaCommit(p) ==
    LET c == proc[p]
        u == c.user
    IN
    /\ c.op = "process_offline_actions"
    /\ c.pc = "loop"
    /\ c.queue = <<>>
    /\ users' = IF lock[u] = p THEN [users EXCEPT ![u] = txrow[p]] ELSE users
    /\ xp_ledger' = xp_ledger \o c.pending
    /\ activities' = activities \o [i \in 1..Len(c.pending) |->
                                       [user_id |-> u, type |-> "challenge_completed"]]
    /\ offline_actions' = [i \in 1..Len(offline_actions) |->
                              IF i \in c.marked
                              THEN [offline_actions[i] EXCEPT !.processed = TRUE]
                              ELSE offline_actions[i]]
    /\ proc' = [proc EXCEPT ![p].pc = "done", ![p].res = "ok",
                            ![p].remaining = Len(c.log)]
    /\ lock' = Release(p)
    /\ txrow' = [txrow EXCEPT ![p] = DefaultUser]
    /\ UNCHANGED <<now, boosters, init_users, purchases, league_snapshots, board, async_storage>>

\* the transaction p is waiting for in the replay specification
PoaWaitee(p) ==
    LET c == proc[p] IN
    IF c.op = "process_offline_actions" /\ c.pc = "insert_wait"
    THEN IF PoaInsertPending(p, offline_actions[Head(c.queue)].action_id)
         THEN CHOOSE q \in Procs \ {p} :
                 /\ proc[q].op = "process_offline_actions"
                 /\ proc[q].pc \in {"loop", "insert_wait"}
                 /\ PendingHas(proc[q], offline_actions[Head(c.queue)].action_id)
         ELSE NoProc
    ELSE IF c.op = "process_offline_actions" /\ c.pc = "loop" /\ c.queue # <<>>
    THEN IF MarkPending(p, Head(c.queue))
         THEN CHOOSE q \in Procs \ {p} :
                 /\ proc[q].op = "process_offline_actions"
                 /\ proc[q].pc \in {"loop", "insert_wait"}
                 /\ Head(c.queue) \in proc[q].marked
         ELSE IF ~CanLock(p, c.user)
                    /\ \E o \in PoaOutcomes(p, offline_actions[Head(c.queue)]) : o.writes
         THEN lock[c.user]
         ELSE NoProc
    ELSE IF c.op = "redeem_grace_pass" /\ c.pc = "update" /\ ~CanLock(p, c.user)
    THEN lock[c.user]
    ELSE IF c.op = "redeem_grace_pass" /\ c.pc = "upsert"
               /\ \E i \in RowsOf(c.action_id) : MarkPending(p, i)
    THEN CHOOSE q \in Procs \ {p} :
            /\ proc[q].op = "process_offline_actions"
            /\ proc[q].pc \in {"loop", "insert_wait"}
            /\ RowsOf(c.action_id) \cap proc[q].marked # {}
    ELSE NoProc

RECURSIVE PoaWaitChain(_, _, _)
PoaWaitChain(p, q, n) ==
    IF n = 0 \/ PoaWaitee(p) = NoProc THEN FALSE
    ELSE PoaWaitee(p) = q \/ PoaWaitChain(PoaWaitee(p), q, n - 1)

\* the deadlock detector aborts a transaction of a wait cycle
PoaAbort(p) ==
    /\ PoaWaitChain(p, p, MaxCalls)
    /\ proc' = Finish(p, "deadlock_detected", 0)
    /\ lock' = Release(p)
    /\ txrow' = [txrow EXCEPT ![p] = DefaultUser]
    /\ UNCHANGED <<now, users, xp_ledger, boosters, activities, init_users, otherTables>>

\* ------------------------------------------------ the replay of the queue
\* the device whose queue is replayed, and the two sessions that call
QueueOwner == "u1"

OfflineClients == {1, 2}

\* the owner of the queue has no grace pass left
InitOffline ==
    /\ now = StartNow
    /\ users = [u \in Users |->
                  IF u = QueueOwner
                  THEN [DefaultUser EXCEPT !.grace_passes_available = 0]
                  ELSE DefaultUser]
    /\ xp_ledger = <<>>
    /\ boosters = <<>>
    /\ activities = <<>>
    /\ lock = [u \in Users |-> NoProc]
    /\ txrow = [p \in Procs |-> DefaultUser]
    /\ proc = [p \in Procs |-> IdleProc]
    /\ init_users = users
    /\ offline_actions = <<>>
    /\ purchases = <<>>
    /\ league_snapshots = <<>>
    /\ board = NoBoard
    /\ async_storage = <<>>

NextOffline ==
    \/ \E type \in ActionTypes : QueueOfflineAction(QueueOwner, type)
    \/ \E p \in OfflineClients, caller \in Users : PoaStart(p, caller, QueueOwner)
    \/ \E p \in OfflineClients : PoaDispatch(p)
    \/ \E p \in OfflineClients : PoaInsertWait(p)
    \/ \E p \in OfflineClients : PoaInsertResume(p)
    \/ \E p \in OfflineClients : PoaCommit(p)
    \/ \E p \in OfflineClients : PoaAbort(p)
    \/ Tick

SpecOffline == InitOffline /\ [][NextOffline]_vars

\* ------------- queued redemptions: replay and direct calls by the queue's owner
QueuedIds == {offline_actions[i].action_id : i \in 1..Len(offline_actions)}

InitRetry ==
    /\ now = StartNow
    /\ \E g \in {0, 1} :
          users = [u \in Users |-> [DefaultUser EXCEPT !.grace_passes_available = g]]
    /\ xp_ledger = <<>>
    /\ boosters = <<>>
    /\ activities = <<>>
    /\ lock = [u \in Users |-> NoProc]
    /\ txrow = [p \in Procs |-> DefaultUser]
    /\ proc = [p \in Procs |-> IdleProc]
    /\ init_users = users
    /\ offline_actions = <<>>
    /\ purchases = <<>>
    /\ league_snapshots = <<>>
    /\ board = NoBoard
    /\ async_storage = <<>>

NextRetry ==
    \/ QueueOfflineAction(QueueOwner, "redeem_grace_pass")
    \/ \E p \in OfflineClients : PoaStart(p, QueueOwner, QueueOwner)
    \/ \E p \in OfflineClients : PoaDispatch(p)
    \/ \E p \in OfflineClients : PoaCommit(p)
    \/ \E p \in OfflineClients : PoaAbort(p)
    \/ \E p \in OfflineClients, a \in QueuedIds : RedeemCheck(p, QueueOwner, a)
    \/ \E p \in OfflineClients : RedeemReadUser(p)
    \/ \E p \in OfflineClients : RedeemUpdate(p)
    \/ \E p \in OfflineClients : RedeemCommit(p)

SpecRetry == InitRetry /\ [][NextRetry]_vars


\* ------------------------------------------ OfflineService (client queue)
ClientTypes == {"xp_update", "challenge_complete"}

\* `${action.type}_${Date.now()}_${random}`: a key no action has yet
NewKey ==
    "key-" \o ToString(1 + Cardinality({p \in Procs : proc[p].op = "queueAction"}))

\* the action queued before the app was last closed
StoredAction == [id |-> "key-0", type |-> "xp_update", idempotencyKey |-> "key-0"]

\* queue = await getQueue(); queue.push(queuedAction)
QueueActionRead(p, type) ==
    /\ SlotFree(p)
    /\ proc' = [proc EXCEPT ![p] =
                  [IdleProc EXCEPT !.op = "queueAction", !.pc = "write", !.user = "u1",
                                   !.action_id = NewKey,
                                   !.queue = Append(async_storage,
                                                [id |-> NewKey, type |-> type,
                                                 idempotencyKey |-> NewKey])]]
    /\ UNCHANGED <<now, users, xp_ledger, boosters, activities, lock, txrow, init_users,
                   otherTables>>

\* await AsyncStorage.setItem(queueKey, JSON.stringify(queue))
QueueActionWrite(p) ==
    /\ proc[p].op = "queueAction"
    /\ proc[p].pc = "write"
    /\ async_storage' = proc[p].queue
    /\ proc' = [proc EXCEPT ![p].pc = "done", ![p].res = "ok"]
    /\ UNCHANGED <<now, users, xp_ledger, boosters, activities, lock, txrow, init_users,
                   offline_actions, purchases, league_snapshots, board>>

\* the position after an action of the loop has been dealt with
AfterAction(c) == IF Len(c.log) > 1 THEN "select" ELSE "store"

\* isOnline(), getUser(), queue = await getQueue(), processed = []
ProcessQueueStart(p, online) ==
    /\ SlotFree(p)
    /\ LET c == [IdleProc EXCEPT !.op = "processQueue", !.user = "u1"]
       IN proc' = [proc EXCEPT ![p] =
                     IF ~online
                     THEN [c EXCEPT !.pc = "done", !.res = "offline"]
                     ELSE [c EXCEPT !.queue = async_storage, !.log = async_storage,
                                    !.pc = IF async_storage = <<>> THEN "store"
                                           ELSE "select"]]
    /\ UNCHANGED <<now, users, xp_ledger, boosters, activities, lock, txrow, init_users,
                   otherTables>>

\* the offline_actions row of this user and idempotency key is processed
KeyProcessed(k) ==
    \E i \in 1..Len(offline_actions) :
        offline_actions[i].action_id = k /\ offline_actions[i].processed

\* select('processed') .. single(); if (existing?.processed) { push; continue }
ProcessQueueSelect(p) ==
    LET c == proc[p]
        h == Head(c.log)
    IN
    /\ c.op = "processQueue"
    /\ c.pc = "select"
    /\ proc' = [proc EXCEPT ![p] =
                  IF KeyProcessed(h.idempotencyKey)
                  THEN [c EXCEPT !.marked = @ \cup {h.id}, !.log = Tail(@),
                                 !.pc = AfterAction(c)]
                  ELSE [c EXCEPT !.pc = "upsert"]]
    /\ UNCHANGED <<now, users, xp_ledger, boosters, activities, lock, txrow, init_users,
                   otherTables>>

\* upsert({ .., processed: false }): a row with this key makes the insert
\* fail on UNIQUE(user_id, idempotency_key); the error is not looked at
ProcessQueueUpsert(p) ==
    LET c == proc[p]
        h == Head(c.log)
    IN
    /\ c.op = "processQueue"
    /\ c.pc = "upsert"
    /\ offline_actions' =
          IF RowsOf(h.idempotencyKey) # {}
          THEN offline_actions
          ELSE Append(offline_actions,
                      [user_id |-> c.user, action_id |-> h.idempotencyKey,
                       action_type |-> h.type, processed |-> FALSE,
                       created_at |-> now, amount |-> 0])
    /\ proc' = [proc EXCEPT ![p].pc = "apply"]
    /\ UNCHANGED <<now, users, xp_ledger, boosters, activities, lock, txrow, init_users,
                   purchases, league_snapshots, board, async_storage>>

\* await this.processAction(action); an exception goes to the catch and the
\* loop goes on with the next action
ProcessQueueApply(p, ok) ==
    LET c == proc[p]
        h == Head(c.log)
    IN
    /\ c.op = "processQueue"
    /\ c.pc = "apply"
    /\ activities' = IF ok
                     THEN Append(activities, [user_id |-> c.user, type |-> h.idempotencyKey])
                     ELSE activities
    /\ proc' = [proc EXCEPT ![p] =
                  IF ok THEN [c EXCEPT !.pc = "mark"]
                  ELSE [c EXCEPT !.log = Tail(@), !.pc = AfterAction(c)]]
    /\ UNCHANGED <<now, users, xp_ledger, boosters, lock, txrow, init_users, otherTables>>

\* update({ processed: true }) for the key; processed.push(action.id)
ProcessQueueMark(p) ==
    LET c == proc[p]
        h == Head(c.log)
    IN
    /\ c.op = "processQueue"
    /\ c.pc = "mark"
    /\ offline_actions' = [i \in 1..Len(offline_actions) |->
                              IF offline_actions[i].action_id = h.idempotencyKey
                              THEN [offline_actions[i] EXCEPT !.processed = TRUE]
                              ELSE offline_actions[i]]
    /\ proc' = [proc EXCEPT ![p].marked = @ \cup {h.id}, ![p].log = Tail(@),
                            ![p].pc = AfterAction(c)]
    /\ UNCHANGED <<now, users, xp_ledger, boosters, activities, lock, txrow, init_users,
                   purchases, league_snapshots, board, async_storage>>

\* remainingQueue = queue.filter(..); await AsyncStorage.setItem(..)
ProcessQueueStore(p) ==
    LET c == proc[p] IN
    /\ c.op = "processQueue"
    /\ c.pc = "store"
    /\ async_storage' = SelectSeq(c.queue, LAMBDA x : x.id \notin c.marked)
    /\ proc' = [proc EXCEPT ![p].pc = "done", ![p].res = "ok"]
    /\ UNCHANGED <<now, users, xp_ledger, boosters, activities, lock, txrow, init_users,
                   offline_actions, purchases, league_snapshots, board>>

InitClient ==
    /\ now = StartNow
    /\ users = [u \in Users |-> DefaultUser]
    /\ xp_ledger = <<>>
    /\ boosters = <<>>
    /\ activities = <<>>
    /\ lock = [u \in Users |-> NoProc]
    /\ txrow = [p \in Procs |-> DefaultUser]
    /\ proc = [p \in Procs |-> IdleProc]
    /\ init_users = users
    /\ offline_actions = <<>>
    /\ purchases = <<>>
    /\ league_snapshots = <<>>
    /\ board = NoBoard
    /\ async_storage = <<StoredAction>>

NextClient ==
    \/ \E p \in Procs, type \in ClientTypes : QueueActionRead(p, type)
    \/ \E p \in Procs : QueueActionWrite(p)
    \/ \E p \in Procs, online \in BOOLEAN : ProcessQueueStart(p, online)
    \/ \E p \in Procs : ProcessQueueSelect(p)
    \/ \E p \in Procs : ProcessQueueUpsert(p)
    \/ \E p \in Procs, ok \in BOOLEAN : ProcessQueueApply(p, ok)
    \/ \E p \in Procs : ProcessQueueMark(p)
    \/ \E p \in Procs : ProcessQueueStore(p)

SpecClient == InitClient /\ [][NextClient]_vars

\* ------------------------------------------- award_xp over several days
DayAmount == 100

InitDays ==
    /\ now = StartNow
    /\ users = [u \in Users |-> DefaultUser]
    /\ xp_ledger = <<>>
    /\ boosters = <<>>
    /\ activities = <<>>
    /\ lock = [u \in Users |-> NoProc]
    /\ txrow = [p \in Procs |-> DefaultUser]
    /\ proc = [p \in Procs |-> IdleProc]
    /\ init_users = users
    /\ offline_actions = <<>>
    /\ purchases = <<>>
    /\ league_snapshots = <<>>
    /\ board = NoBoard
    /\ async_storage = <<>>

DayClients == {1, 2}

NextDays ==
    \/ \E p \in DayClients, a \in ActionIds : AwardCheck(p, "u1", a, DayAmount)
    \/ \E p \in Procs : AwardReadUser(p)
    \/ \E p \in Procs : AwardBonus(p)
    \/ \E p \in Procs : AwardInsert(p)
    \/ \E p \in Procs : AwardCommit(p)
    \/ \E p \in Procs : DeadlockAbort(p)
    \/ Tick
    \/ NextDay
    \/ RunWeeklyLeagueUpdate

SpecDays == InitDays /\ [][NextDays]_vars

\* ------------------------------------------------------- claims: award_xp
EntriesFor(a) == {i \in 1..Len(xp_ledger) : xp_ledger[i].action_id = a}

\* p leaves "idle" in this step as an award_xp call
StartsAward(p) ==
    proc[p].pc = "idle" /\ proc'[p].pc # "idle" /\ proc'[p].op = "award_xp"

\* an award_xp call with action_id a has returned success after awarding
AwardedBefore(a) ==
    \E q \in Procs :
        /\ proc[q].op = "award_xp"
        /\ proc[q].pc = "done"
        /\ proc[q].res = "ok"
        /\ proc[q].action_id = a

\* C1: an award_xp call made after a call with the same action_id has
\* returned leaves the users table and the ledger as they were, with exactly
\* one ledger entry for the action_id, and returns success, 'Already
\* processed', xp_awarded = 0.
C1_AwardIdempotent ==
    [][\A p \in Procs :
          (StartsAward(p) /\ AwardedBefore(proc'[p].action_id))
              => /\ proc'[p].pc = "done"
                 /\ proc'[p].res = "already"
                 /\ proc'[p].xp_awarded = 0
                 /\ users' = users
                 /\ xp_ledger' = xp_ledger
                 /\ Cardinality(EntriesFor(proc'[p].action_id)) = 1]_vars

C1_Witness ==
    \E p, q \in Procs :
        /\ p # q
        /\ proc[p].op = "award_xp" /\ proc[q].op = "award_xp"
        /\ proc[p].pc = "done" /\ proc[p].res = "ok"
        /\ proc[q].pc = "done" /\ proc[q].res = "already"
        /\ proc[p].action_id = proc[q].action_id
        /\ proc[p].user = proc[q].user
        /\ proc[p].amount = proc[q].amount

\* C2: two award_xp calls with the same action_id, however interleaved, leave
\* exactly one ledger entry, one of them awards and the other ends on the
\* 'Already processed' success path, never with an error.
C2_ConcurrentSameAction ==
    \A p, q \in Procs :
        (/\ p # q
         /\ proc[p].op = "award_xp" /\ proc[q].op = "award_xp"
         /\ proc[p].pc = "done" /\ proc[q].pc = "done"
         /\ proc[p].action_id = proc[q].action_id)
            => /\ Cardinality(EntriesFor(proc[p].action_id)) = 1
               /\ {proc[p].res, proc[q].res} = {"ok", "already"}

Quiescent == \A p \in Procs : proc[p].pc \in {"idle", "done"}

Returned == {p \in Procs : proc[p].pc = "done"}

DistinctActions ==
    \A p, q \in Returned : p # q => proc[p].action_id # proc[q].action_id

NoBonusFor(p) ==
    /\ ~MorningApplies(proc[p])
    /\ ~StreakApplies(proc[p])
    /\ ActiveBoosters(proc[p].user, proc[p].v_now) = {}

RECURSIVE SumAmount(_)
SumAmount(S) ==
    IF S = {} THEN 0
    ELSE LET p == CHOOSE x \in S : TRUE IN proc[p].amount + SumAmount(S \ {p})

CallsOf(u) == {p \in Returned : proc[p].user = u}

\* C3: when award_xp calls with pairwise distinct action_ids (no bonus
\* applying) have all returned, each succeeded, the ledger has one entry per
\* call, and every user's xp, weekly_xp and lifetime_xp are the initial value
\* plus the sum of the amounts awarded to that user.
C3_NoLostUpdate ==
    (/\ Quiescent
     /\ DistinctActions
     /\ \A p \in Returned : proc[p].op = "award_xp" /\ NoBonusFor(p))
        => /\ \A p \in Returned : proc[p].res = "ok" /\ proc[p].xp_awarded = proc[p].amount
           /\ Len(xp_ledger) = Cardinality(Returned)
           /\ \A u \in Users :
                 /\ users[u].xp = init_users[u].xp + SumAmount(CallsOf(u))
                 /\ users[u].weekly_xp = init_users[u].weekly_xp + SumAmount(CallsOf(u))
                 /\ users[u].lifetime_xp = init_users[u].lifetime_xp + SumAmount(CallsOf(u))

\* two calls for the same user were in flight together and both awarded
C3_Witness ==
    /\ Quiescent
    /\ DistinctActions
    /\ Cardinality(Returned) >= 2
    /\ \A p \in Returned :
          /\ proc[p].op = "award_xp"
          /\ NoBonusFor(p)
          /\ proc[p].user = "u1"
          /\ proc[p].res = "ok"
          /\ proc[p].rec.xp = init_users["u1"].xp

\* C6: xp, weekly_xp, lifetime_xp, gems, streak and grace_passes_available of
\* every user are never negative.
C6_NonNegative ==
    \A u \in Users :
        /\ users[u].xp >= 0
        /\ users[u].weekly_xp >= 0
        /\ users[u].lifetime_xp >= 0
        /\ users[u].gems >= 0
        /\ users[u].streak >= 0
        /\ users[u].grace_passes_available >= 0

\* C7: no step decreases a user's lifetime_xp.
C7_LifetimeMonotone ==
    [][\A u \in Users : users'[u].lifetime_xp >= users[u].lifetime_xp]_vars

\* ------------------------------------------------- claims: the league engine
BoardIds == {board.rows[i].user_id : i \in 1..Len(board.rows)}

\* C8: get_leaderboard without a league filter ranks every member of a higher
\* league strictly before every member of a lower league, whatever their XP;
\* within a league the rows are in weekly_xp (weekly) or lifetime_xp
\* (otherwise) descending order; with a filter exactly the members of that
\* league are returned.
C8_LeaderboardOrder ==
    board.timeframe # "none" =>
        LET rows == board.rows IN
        /\ \A i \in 1..Len(rows) : rows[i].rank = i
        /\ Cardinality(BoardIds) = Len(rows)
        /\ BoardIds = {u \in DOMAIN users :
                          board.league = NoLeague \/ users[u].league = board.league}
        /\ \A i, j \in 1..Len(rows) :
              /\ rows[i].league > rows[j].league => rows[i].rank < rows[j].rank
              /\ (rows[i].league = rows[j].league /\ board.timeframe = "weekly"
                    /\ rows[i].weekly_xp > rows[j].weekly_xp)
                     => rows[i].rank < rows[j].rank
              /\ (rows[i].league = rows[j].league /\ board.timeframe # "weekly"
                    /\ users[rows[i].user_id].lifetime_xp > users[rows[j].user_id].lifetime_xp)
                     => rows[i].rank < rows[j].rank

\* an unfiltered board on which a lower-league member has more weekly and
\* lifetime XP than a higher-league member
C8_Witness ==
    /\ board.timeframe # "none"
    /\ board.league = NoLeague
    /\ \E i, j \in 1..Len(board.rows) :
          /\ board.rows[i].league > board.rows[j].league
          /\ board.rows[i].weekly_xp < board.rows[j].weekly_xp
          /\ board.rows[i].xp < board.rows[j].xp
          /\ i < j

WeeklyRan == league_snapshots' # league_snapshots

SameLeague(u) == {v \in DOMAIN users : v # u /\ users[v].league = users[u].league}

\* members of u's league that sort strictly before u / with the same keys as u
Ahead(u) == Cardinality({v \in SameLeague(u) : WeeklyBefore(users, v, u)})

Level(u) ==
    Cardinality({v \in SameLeague(u) :
                    ~WeeklyBefore(users, v, u) /\ ~WeeklyBefore(users, u, v)})

Qualifies(u) ==
    users[u].league < TopLeague /\ users[u].weekly_xp >= PromotionMinXp

Min(a, b) == IF a < b THEN a ELSE b

\* C9: a run of run_weekly_league_update moves a user one tier up exactly when
\* the user was below Diamond, had weekly_xp >= 500 and was among the first 3
\* of the league by (weekly_xp DESC, xp DESC); among members with equal keys
\* the query order decides, and min(3, qualifying members) of a league go up.
C9_Promotion ==
    [][WeeklyRan =>
         /\ \A u \in DOMAIN users :
               /\ users'[u].league = users[u].league + 1
                     => Qualifies(u) /\ Ahead(u) < PromotionSlots
               /\ (Qualifies(u) /\ Ahead(u) + Level(u) < PromotionSlots)
                     => users'[u].league = users[u].league + 1
         /\ \A l \in BottomLeague..(TopLeague - 1) :
               Cardinality({u \in Members(users, l) : users'[u].league = l + 1})
                  = Min(PromotionSlots,
                        Cardinality({u \in Members(users, l) :
                                        users[u].weekly_xp >= PromotionMinXp}))]_vars

\* a run has promoted three members of a league and left a fourth, who also
\* had weekly_xp >= 500, where it was
C9_Witness ==
    /\ Len(league_snapshots) = 1
    /\ \E l \in BottomLeague..(TopLeague - 1) :
          LET was == {u \in DOMAIN users : init_users[u].league = l} IN
          /\ Cardinality({u \in was : users[u].league = l + 1}) = PromotionSlots
          /\ \E u \in was : init_users[u].weekly_xp >= PromotionMinXp /\ users[u].league = l
          /\ \E u \in was : init_users[u].weekly_xp < PromotionMinXp /\ users[u].league = l

Cutoff(u) == LeagueSize(users[u].league) - RelegationZone

\* C10: a run moves a member who is not promoted one tier down exactly when
\* the member was above Bronze at an in-league position beyond capacity - 5;
\* a member at or above the cutoff who is not promoted keeps the league.
C10_Relegation ==
    [][WeeklyRan =>
         \A u \in DOMAIN users :
            users'[u].league # users[u].league + 1 =>
               /\ (users[u].league > BottomLeague /\ Ahead(u) + 1 > Cutoff(u))
                     => users'[u].league = users[u].league - 1
               /\ users'[u].league = users[u].league - 1
                     => users[u].league > BottomLeague /\ Ahead(u) + Level(u) + 1 > Cutoff(u)
               /\ (users[u].league = BottomLeague \/ Ahead(u) + Level(u) + 1 <= Cutoff(u))
                     => users'[u].league = users[u].league]_vars

\* ------------------------------------------------ claims: redeem_grace_pass
StartsRedeem(p) ==
    proc[p].pc = "idle" /\ proc'[p].pc # "idle" /\ proc'[p].op = "redeem_grace_pass"

RedeemedBefore(a) ==
    \E q \in Procs :
        /\ proc[q].op = "redeem_grace_pass"
        /\ proc[q].pc = "done"
        /\ proc[q].res = "ok"
        /\ proc[q].action_id = a

\* p returns from a successful redemption in this step
RedeemReturns(p) ==
    proc[p].op = "redeem_grace_pass" /\ proc[p].pc = "upsert" /\ proc'[p].pc = "done"

\* C4: a redeem_grace_pass call that finds no processed action and reads
\* grace_passes_available >= 1 succeeds, and its commit takes exactly one pass
\* (available - 1, used + 1); a call made after a successful call with the
\* same action_id returns success, 'Already processed', and leaves the users
\* table (both counters and the streak) as it was.
C4_RedeemIdempotent ==
    [][\A p \in Procs :
          /\ (StartsRedeem(p) /\ RedeemedBefore(proc'[p].action_id))
                => /\ proc'[p].pc = "done"
                   /\ proc'[p].res = "already"
                   /\ users' = users
          /\ (StartsRedeem(p) /\ ~ProcessedAction(proc'[p].action_id))
                => proc'[p].pc = "user"
          /\ (proc[p].op = "redeem_grace_pass" /\ proc[p].pc = "user"
                 /\ proc'[p].pc # "user" /\ users[proc[p].user].grace_passes_available >= 1)
                => proc'[p].pc = "update"
          /\ RedeemReturns(p)
                => LET u == proc[p].user IN
                   /\ proc'[p].res = "ok"
                   /\ users'[u].grace_passes_available = users[u].grace_passes_available - 1
                   /\ users'[u].grace_passes_used = users[u].grace_passes_used + 1
                   /\ users'[u].streak = IF users[u].streak > 0 THEN users[u].streak ELSE 1
                   /\ \A v \in Users \ {u} : users'[v] = users[v]]_vars

\* the scenario of two passes and a broken streak: the first call has taken
\* one pass and restored the streak to 1, the repeated call has returned
\* 'Already processed'
C4_Witness ==
    /\ init_users["u1"].grace_passes_available = 2
    /\ init_users["u1"].streak = 0
    /\ proc[1].op = "redeem_grace_pass" /\ proc[1].pc = "done" /\ proc[1].res = "ok"
    /\ proc[2].op = "redeem_grace_pass" /\ proc[2].pc = "done" /\ proc[2].res = "already"
    /\ proc[1].user = "u1" /\ proc[2].user = "u1"
    /\ proc[1].action_id = proc[2].action_id
    /\ users["u1"].grace_passes_available = 1
    /\ users["u1"].grace_passes_used = 1
    /\ users["u1"].streak = 1

\* ----------------------------------------------------- claims: gift_booster
StartsGift(p) ==
    proc[p].pc = "idle" /\ proc'[p].pc # "idle" /\ proc'[p].op = "gift_booster"

GiftedBefore(to, type, a) ==
    \E q \in Procs :
        /\ proc[q].op = "gift_booster"
        /\ proc[q].pc = "done"
        /\ proc[q].res = "ok"
        /\ proc[q].to_user = to
        /\ proc[q].booster_type = type
        /\ proc[q].action_id = a

\* C5: a gift_booster call made after a successful call with the same target
\* user, booster type and action_id returns success, 'Already processed', and
\* creates neither a booster row nor a 'booster_gifted' activity.
C5_GiftIdempotent ==
    [][\A p \in Procs :
          (StartsGift(p)
             /\ GiftedBefore(proc'[p].to_user, proc'[p].booster_type, proc'[p].action_id))
              => /\ proc'[p].pc = "done"
                 /\ proc'[p].res = "already"
                 /\ boosters' = boosters
                 /\ activities' = activities]_vars

\* ------------------------------------- claims: the weekly run, second part
\* C11: when run_weekly_league_update completes every user has weekly_xp = 0
\* and has_used_morning_bonus = FALSE, whether promoted, relegated or kept.
C11_WeeklyReset ==
    [][WeeklyRan =>
         \A u \in DOMAIN users :
            users'[u].weekly_xp = 0 /\ ~users'[u].has_used_morning_bonus]_vars

\* after one run a promoted, a relegated and a kept member, each of whom had
\* weekly XP or the morning flag set, have been reset
C11_Witness ==
    /\ Len(league_snapshots) = 1
    /\ \E a, b, c \in DOMAIN users :
          /\ users[a].league = init_users[a].league + 1
          /\ users[b].league = init_users[b].league - 1
          /\ users[c].league = init_users[c].league
          /\ init_users[a].weekly_xp > 0
          /\ init_users[b].has_used_morning_bonus
          /\ init_users[c].weekly_xp > 0 /\ init_users[c].has_used_morning_bonus
          /\ \A u \in {a, b, c} : users[u].weekly_xp = 0 /\ ~users[u].has_used_morning_bonus

\* C15: a second invocation for the same week, with no XP awarded in
\* between, leaves every user's league as the first invocation left it.
C15_IdempotentByPeriod ==
    [][(WeeklyRan /\ Len(league_snapshots) >= 1) =>
         \A u \in DOMAIN users : users'[u].league = users[u].league]_vars

\* C19: for users a, b with a's league at the start of the run above b's,
\* the league_position stored for a is smaller than the one stored for b.
C19_GlobalRankByLeague ==
    [][WeeklyRan =>
         \A a, b \in DOMAIN users :
            users[a].league > users[b].league
               => users'[a].league_position < users'[b].league_position]_vars

LastRankings == league_snapshots'[Len(league_snapshots')]

\* C20: the rankings of a run hold exactly one entry per user, with ranks
\* 1..N in order, and no user's league moves by more than one tier in a run.
C20_RankedOnce ==
    [][WeeklyRan =>
         /\ Len(LastRankings) = Cardinality(DOMAIN users)
         /\ \A u \in DOMAIN users :
               Cardinality({i \in 1..Len(LastRankings) : LastRankings[i].user_id = u}) = 1
         /\ \A i \in 1..Len(LastRankings) : LastRankings[i].rank = i
         /\ \A u \in DOMAIN users :
               /\ users'[u].league - users[u].league <= 1
               /\ users[u].league - users'[u].league <= 1]_vars

\* ------------------------------------------- claims: award_xp, second part
\* the bonuses a call is entitled to, from the row and the clock it read
InMorning(c) ==
    HourOf(c.v_now) >= MorningStart /\ HourOf(c.v_now) < MorningEnd
       /\ ~c.rec.has_used_morning_bonus

\* the multiplier of the active booster with the latest expiry, 1 without one
ActiveFactor(c) ==
    LET act == {i \in 1..Len(boosters) :
                   boosters[i].user_id = c.user /\ boosters[i].is_active
                      /\ boosters[i].expires_at > c.v_now}
    IN IF act = {} THEN 1
       ELSE LET top == CHOOSE i \in act :
                          \A j \in act : boosters[j].expires_at <= boosters[i].expires_at
            IN IF boosters[top].type = "3x" THEN 3 ELSE 2

\* floor(base * 1.5), the halves counted in integers
FlooredHalfMore(base) == base + (base - (base % 2)) \div 2

ExpectedFinal(c) ==
    ActiveFactor(c) * (IF c.rec.has_streak_bonus THEN 2 ELSE 1)
        * (IF InMorning(c) THEN FlooredHalfMore(c.amount) ELSE c.amount)

AwardedOk(p) == proc[p].op = "award_xp" /\ proc[p].pc = "done" /\ proc[p].res = "ok"

\* C12: the amount a successful award_xp call awards is boosterFactor *
\* streakFactor * floor(base * 1.5) with the floor taken at the morning step
\* only (each factor 1 where the bonus does not apply); base 100 with all
\* three bonuses and a 2x booster gives 600.
C12_BonusOrder ==
    \A p \in Procs :
        AwardedOk(p) =>
            /\ proc[p].xp_awarded = ExpectedFinal(proc[p])
            /\ (proc[p].amount = 100 /\ InMorning(proc[p]) /\ proc[p].rec.has_streak_bonus
                   /\ ActiveFactor(proc[p]) = 2)
                  => proc[p].xp_awarded = 600

\* an odd half: base 125 with the three bonuses and a 2x booster returned
\* 2 * 2 * 187 = 748, and base 100 returned 600
C12_Witness ==
    \E p, q \in Procs :
        /\ AwardedOk(p) /\ AwardedOk(q)
        /\ InMorning(proc[p]) /\ proc[p].rec.has_streak_bonus /\ ActiveFactor(proc[p]) = 2
        /\ InMorning(proc[q]) /\ proc[q].rec.has_streak_bonus /\ ActiveFactor(proc[q]) = 2
        /\ proc[p].amount = 125 /\ proc[p].xp_awarded = 748
        /\ proc[q].amount = 100 /\ proc[q].xp_awarded = 600

\* C13: an award_xp call with a negative base amount returns an
\* InvalidArgument failure and writes nothing: no ledger row carries a
\* negative amount.
C13_NegativeRejected ==
    /\ \A p \in Procs :
          (proc[p].op = "award_xp" /\ proc[p].pc = "done" /\ proc[p].amount < 0)
              => proc[p].res = "invalid_argument"
    /\ \A i \in 1..Len(xp_ledger) : xp_ledger[i].amount >= 0

\* p's call ends in this step without success
FailsNow(p) ==
    proc[p].pc # "done" /\ proc'[p].pc = "done" /\ proc'[p].res # "ok"
       /\ proc'[p].res # "already"

\* C18: award_xp is all-or-nothing.  Every step that changes the committed
\* users table or the ledger is the commit of one call and applies all of it:
\* one ledger row, the xp / weekly_xp / lifetime_xp / gems increments of that
\* row's amount and the consumption of the flags the call used.  A call that
\* fails (at the ledger insert or as a deadlock victim) changes nothing.
C18_AllOrNothing ==
    [][/\ (users' # users \/ xp_ledger' # xp_ledger) =>
             \E p \in Procs :
                LET c == proc[p]
                    u == c.user
                IN /\ c.op = "award_xp" /\ c.pc = "commit"
                   /\ proc'[p].pc = "done" /\ proc'[p].res = "ok"
                   /\ xp_ledger' = Append(xp_ledger,
                                       [user_id |-> u, action_id |-> c.action_id,
                                        amount |-> c.final])
                   /\ users'[u].xp = users[u].xp + c.final
                   /\ users'[u].weekly_xp = users[u].weekly_xp + c.final
                   /\ users'[u].lifetime_xp = users[u].lifetime_xp + c.final
                   /\ users'[u].gems = users[u].gems + GemsEarned(c.final)
                   /\ users'[u].has_used_morning_bonus =
                         (users[u].has_used_morning_bonus \/ MorningApplies(c))
                   /\ users'[u].has_streak_bonus =
                         (users[u].has_streak_bonus /\ ~StreakApplies(c))
                   /\ \A v \in Users \ {u} : users'[v] = users[v]
       /\ \A p \in Procs :
             FailsNow(p) => users' = users /\ xp_ledger' = xp_ledger]_vars

\* a call that had set a bonus flag failed at the ledger insert, and the
\* committed flags of its user are as they were at the start
C18_Witness ==
    \E p \in Procs :
        /\ proc[p].op = "award_xp" /\ proc[p].pc = "done"
        /\ proc[p].res = "unique_violation"
        /\ MorningApplies(proc[p]) \/ StreakApplies(proc[p])
        /\ users[proc[p].user].has_used_morning_bonus
              = init_users[proc[p].user].has_used_morning_bonus
        /\ users[proc[p].user].has_streak_bonus
              = init_users[proc[p].user].has_streak_bonus
        /\ users[proc[p].user].xp = init_users[proc[p].user].xp

\* -------------------------------------- claims: redeem_grace_pass, second part
\* p evaluates the availability check in this step
RedeemReads(p) ==
    proc[p].op = "redeem_grace_pass" /\ proc[p].pc = "user" /\ proc'[p].pc # "user"

\* C14: a redeem_grace_pass call with an action_id that is not processed,
\* for a user with grace_passes_available <= 0, ends with success = false,
\* 'No grace passes available'; no step of the call changes the users table
\* or offline_actions.
C14_NoPassesFails ==
    [][\A p \in Procs :
          /\ (RedeemReads(p) /\ users[proc[p].user].grace_passes_available <= 0)
                => /\ proc'[p].pc = "done"
                   /\ proc'[p].res = "no_grace_passes"
                   /\ users' = users
                   /\ offline_actions' = offline_actions
          /\ StartsRedeem(p) => users' = users /\ offline_actions' = offline_actions]_vars

\* the only call made has failed for want of a pass; nothing is processed
\* for its action_id and the users table is as it was created
C14_Witness ==
    /\ proc[1].op = "redeem_grace_pass" /\ proc[1].pc = "done"
    /\ proc[1].res = "no_grace_passes"
    /\ proc[2].pc = "idle"
    /\ init_users[proc[1].user].grace_passes_available = 0
    /\ ~ProcessedAction(proc[1].action_id)
    /\ users = init_users

\* --------------------------------------------------- claims: updateStreak
\* the profile the call of this step read
ReadStats(p) == IF proc[p].pc = "client" THEN proc[p].rec ELSE users[proc'[p].user]

Today == now \div 24

\* something of client q other than its cached profile changes in this step
OtherThanCache(q) == [proc'[q] EXCEPT !.rec = proc[q].rec] # proc[q]

PurchasesOf(u) == {i \in 1..Len(purchases) : purchases[i].user_id = u}

RECURSIVE SumGems(_)
SumGems(S) ==
    IF S = {} THEN 0
    ELSE LET i == CHOOSE x \in S : TRUE
         IN GemsFor(purchases[i].product_id) + SumGems(S \ {i})

RECURSIVE SumPasses(_)
SumPasses(S) ==
    IF S = {} THEN 0
    ELSE LET i == CHOOSE x \in S : TRUE
         IN PassesFor(purchases[i].product_id) + SumPasses(S \ {i})

\* C17: however often a purchase event is delivered, each transaction id is
\* recorded once and each user holds the gems and grace passes of the
\* recorded purchases, granted exactly once.
C17_GrantOnce ==
    /\ \A i, j \in 1..Len(purchases) :
          purchases[i].transaction_id = purchases[j].transaction_id => i = j
    /\ \A u \in Users :
          /\ users[u].gems = init_users[u].gems + SumGems(PurchasesOf(u))
          /\ users[u].grace_passes_available
                = init_users[u].grace_passes_available + SumPasses(PurchasesOf(u))

\* ------------------------------------------- claims: award_xp, third part
InWindow(t) == HourOf(t) >= 6 /\ HourOf(t) < 9

\* the successful award_xp calls of user u that got the morning bonus on day d
MorningAwards(u, d) ==
    {p \in Procs : AwardedOk(p) /\ proc[p].user = u /\ MorningApplies(proc[p])
                      /\ DayOf(proc[p].v_now) = d}

\* C21: a user gets the morning bonus on at most one award_xp call per UTC
\* day, and a call made in the morning window of a later day than the start,
\* on which no other call of the user got the bonus, gets it.
C21_MorningPerDay ==
    \A p \in Procs :
        AwardedOk(p) =>
            LET u == proc[p].user
                d == DayOf(proc[p].v_now)
            IN /\ Cardinality(MorningAwards(u, d)) <= 1
               /\ (InWindow(proc[p].v_now) /\ d > DayOf(StartNow)
                      /\ MorningAwards(u, d) \ {p} = {})
                     => p \in MorningAwards(u, d)

\* ------------------------------------------------- claims: boosters
\* C22: in every reachable state each user has at most one booster that is
\* active and not expired, whatever gifts and purchases were applied.
C22_OneActiveBooster ==
    \A u \in Users : Cardinality(ActiveBoosters(u, now)) <= 1

\* ------------------------------------------------- claims: award_xp, fourth part
FloorLevel(xp) == (xp \div XpPerLevel) + 1

\* C25: after every award_xp call, calls that overlap on one user with distinct
\* action ids included, the stored level of each user is floor(xp / 500) + 1.
C25_LevelFromXp ==
    \A u \in Users : users[u].level = FloorLevel(users[u].xp)

StreakAwards(u) ==
    {p \in Procs : AwardedOk(p) /\ proc[p].user = u /\ StreakApplies(proc[p])}

\* C26: the one-shot streak bonus doubles at most one award: once a user who
\* started with has_streak_bonus set has been awarded, under any interleaving
\* of calls with distinct action ids, exactly one award was doubled and the
\* flag is clear.
C26_StreakBonusOnce ==
    \A u \in Users :
        (init_users[u].has_streak_bonus /\ \E p \in Procs : AwardedOk(p) /\ proc[p].user = u)
            => /\ Cardinality(StreakAwards(u)) = 1
               /\ ~users[u].has_streak_bonus

LedgerOf(u) == {i \in 1..Len(xp_ledger) : xp_ledger[i].user_id = u}

RECURSIVE SumLedger(_)
SumLedger(S) ==
    IF S = {} THEN 0
    ELSE LET i == CHOOSE x \in S : TRUE IN xp_ledger[i].amount + SumLedger(S \ {i})

AwardedIds(u) == {proc[p].action_id : p \in {q \in Procs : AwardedOk(q) /\ proc[q].user = u}}

LedgerConserved ==
    \A u \in Users :
        /\ users[u].lifetime_xp - init_users[u].lifetime_xp = SumLedger(LedgerOf(u))
        /\ Cardinality(LedgerOf(u)) = Cardinality(AwardedIds(u))

\* C27: ledger conservation: after every step each user's lifetime_xp minus
\* its initial value is the sum of the amounts of the user's ledger entries,
\* the user has one ledger entry per distinct action id awarded, and the
\* ledger only grows (the rows it had are still there, unchanged).
C27_LedgerConservation ==
    [][/\ LedgerConserved'
       /\ Len(xp_ledger') >= Len(xp_ledger)
       /\ SubSeq(xp_ledger', 1, Len(xp_ledger)) = xp_ledger]_vars

C27_Witness ==
    /\ Cardinality(LedgerOf("u1")) >= 2
    /\ \E p, q \in Procs :
          /\ p # q
          /\ AwardedOk(p) /\ AwardedOk(q)
          /\ proc[p].user = "u1" /\ proc[q].user = "u1"
          /\ proc[p].xp_awarded # proc[p].amount
          /\ proc[q].rec.lifetime_xp = init_users["u1"].lifetime_xp
          /\ proc[p].rec.lifetime_xp = init_users["u1"].lifetime_xp

\* ------------------------------------------ claims: process_offline_actions
IsReplay(p) == proc[p].op = "process_offline_actions"

PoaReturned(p) == IsReplay(p) /\ proc[p].pc = "done" /\ proc[p].res = "ok"

Created(i) == offline_actions[i].created_at

\* the position at which row i was dispatched by call c, 0 when it was not
LogPos(c, i) ==
    IF \E k \in 1..Len(c.log) : c.log[k].row = i
    THEN CHOOSE k \in 1..Len(c.log) : c.log[k].row = i
    ELSE 0

LedgerPos(a) ==
    IF LedgerHas(a) THEN CHOOSE k \in 1..Len(xp_ledger) : xp_ledger[k].action_id = a ELSE 0

\* C23: process_offline_actions dispatches the rows of its queue oldest
\* first: of two rows a, b it selected with a created before b, b is never
\* dispatched before a, and the ledger row of a comes before that of b.
C23_OldestFirst ==
    \A p \in Procs :
        IsReplay(p) =>
            \A a, b \in proc[p].snap :
                (Created(a) < Created(b) /\ LogPos(proc[p], b) > 0)
                    => /\ LogPos(proc[p], a) > 0
                       /\ LogPos(proc[p], a) < LogPos(proc[p], b)
                       /\ (PoaReturned(p)
                             /\ proc[p].log[LogPos(proc[p], a)].res = "ok"
                             /\ proc[p].log[LogPos(proc[p], b)].res = "ok"
                             /\ offline_actions[a].action_type = "award_xp"
                             /\ offline_actions[b].action_type = "award_xp")
                            => LedgerPos(offline_actions[a].action_id)
                                  < LedgerPos(offline_actions[b].action_id)

\* two awards queued at different times were replayed and committed
C23_Witness ==
    \E p \in Procs :
        /\ PoaReturned(p)
        /\ proc[p].snap = {1, 2}
        /\ Created(1) < Created(2)
        /\ proc[p].log = <<[row |-> 1, res |-> "ok"], [row |-> 2, res |-> "ok"]>>
        /\ offline_actions[1].action_type = "award_xp"
        /\ offline_actions[2].action_type = "award_xp"
        /\ Len(xp_ledger) = 2

StartsReplay(q) == proc[q].pc = "idle" /\ proc'[q].pc # "idle" /\ proc'[q].op = "process_offline_actions"

Rows(q) == {q[k] : k \in 1..Len(q)}

AllMarked(p) == \A i \in proc[p].snap : offline_actions[i].processed

\* C24: when process_offline_actions has returned, every row of the user
\* that was unprocessed when the call started is processed, whether its
\* dispatch succeeded, returned a failure or had an unknown type; a call that
\* starts afterwards selects none of them, and no step un-marks a row.
C24_AllMarked ==
    [][/\ \A p \in Procs : PoaReturned(p)' => AllMarked(p)'
       /\ \A p, q \in Procs :
             (PoaReturned(p) /\ StartsReplay(q)) => Rows(proc'[q].queue) \cap proc[p].snap = {}
       /\ \A i \in 1..Len(offline_actions) :
             offline_actions[i].processed => offline_actions'[i].processed]_vars

\* a redemption that failed for want of a pass and an action of unknown
\* type were both attempted once; the call that started later found nothing
C24_Witness ==
    \E p, q \in Procs :
        /\ PoaReturned(p) /\ PoaReturned(q)
        /\ proc[p].snap = {1, 2}
        /\ {proc[p].log[k].res : k \in 1..Len(proc[p].log)}
              = {"no_grace_passes", "unknown_action_type"}
        /\ proc[q].to_user = proc[p].to_user
        /\ proc[q].v_now > proc[p].v_now
        /\ proc[q].snap = {}
        /\ proc[q].log = <<>>

ReplayReturns(p) ==
    IsReplay(p) /\ proc[p].pc = "loop" /\ proc'[p].pc = "done" /\ proc'[p].res = "ok"

\* C28: process_offline_actions(userId) changes the progression state of
\* userId only: whoever calls it, the awards go to the owner of the queue and
\* every other user's row (the caller's included) is left as it was.
C28_ReplayFrame ==
    [][\A p \in Procs :
          ReplayReturns(p) =>
              /\ \A v \in Users \ {proc[p].to_user} : users'[v] = users[v]
              /\ \A k \in (Len(xp_ledger) + 1)..Len(xp_ledger') :
                    xp_ledger'[k].user_id = proc[p].to_user]_vars

\* a call that consumed a pass for action_id a has returned
Consumed(a) ==
    \/ \E q \in Procs : /\ proc[q].op = "redeem_grace_pass"
                        /\ proc[q].pc = "done"
                        /\ proc[q].res = "ok"
                        /\ proc[q].action_id = a
    \/ \E q \in Procs : /\ PoaReturned(q)
                        /\ \E k \in 1..Len(proc[q].log) :
                              /\ offline_actions[proc[q].log[k].row].action_id = a
                              /\ offline_actions[proc[q].log[k].row].action_type
                                    = "redeem_grace_pass"
                              /\ proc[q].log[k].res = "ok"

\* the action ids for which u was answered success
ReportedIds(u) ==
    {proc[q].action_id :
        q \in {r \in Procs : /\ proc[r].op = "redeem_grace_pass"
                             /\ proc[r].pc = "done"
                             /\ proc[r].res \in {"ok", "already"}
                             /\ proc[r].user = u}}
    \cup
    {a \in QueuedIds : \E q \in Procs : proc[q].user = u /\ PoaReturned(q) /\ Consumed(a)
                                         /\ \E k \in 1..Len(proc[q].log) :
                                               offline_actions[proc[q].log[k].row].action_id = a}

\* C29: redeem_grace_pass answers 'Already processed' only for an action_id
\* with which an earlier call consumed a pass, so the number of action ids
\* answered with success is grace_passes_used minus its initial value.
C29_AlreadyMeansConsumed ==
    /\ \A p \in Procs :
          (proc[p].op = "redeem_grace_pass" /\ proc[p].pc = "done" /\ proc[p].res = "already")
              => Consumed(proc[p].action_id)
    /\ \A u \in Users :
          Cardinality(ReportedIds(u))
              = users[u].grace_passes_used - init_users[u].grace_passes_used

\* ------------------------------------------------- claims: OfflineService
\* the keys of the actions queueAction has stored, and of the one stored before
QueuedKeys ==
    {proc[p].action_id : p \in {q \in Procs : proc[q].op = "queueAction" /\ proc[q].pc = "done"}}
    \cup {StoredAction.idempotencyKey}

StoredKeys == {async_storage[i].idempotencyKey : i \in 1..Len(async_storage)}

Applications(k) == {i \in 1..Len(activities) : activities[i].type = k}

\* C30: the client queue neither loses nor duplicates actions: an action
\* queueAction has stored is in the local queue until a processQueue pass has
\* applied it, also when it was stored while a pass was running, and
\* overlapping passes apply each action at most once.
C30_QueueExactlyOnce ==
    \A k \in QueuedKeys \cup StoredKeys :
        /\ Cardinality(Applications(k)) <= 1
        /\ k \in QueuedKeys => (k \in StoredKeys \/ Applications(k) # {})

====
